---- MODULE Spec2Model ----
(***************************************************************************)
(* P2CAM multi-core firmware (ESP32_s3PLUS_NewRECORDING.ino): the state    *)
(* machine controller, the BLE command gateway with its indication path,   *)
(* the button classifier and the queues and locks that connect them.       *)
(***************************************************************************)
EXTENDS Integers, Sequences, FiniteSets, TLC

(***************************************************************************)
(* SystemState_t                                                           *)
(***************************************************************************)
STATE_STARTUP == 0
STATE_LOGO == 1
STATE_SETUP == 2
STATE_LOGIN == 3
STATE_UNLOCK == 4
STATE_RECORDING == 5
STATE_UPLOADING == 6
STATE_ERROR == 7
STATE_SHUTDOWN == 8
STATE_MAX == 9

(***************************************************************************)
(* Timing constants of the firmware, in milliseconds (1 tick = 1 ms).      *)
(***************************************************************************)
BUTTON_DEBOUNCE_MS == 50
LONG_PRESS_MS == 2000
BUTTON_POLL_MS == 10
BLE_RETRY_DEFAULT == 3
BLE_RETRY_UNSTABLE == 5
BLE_FAILURE_CAP == 2
BLE_FAILURE_LIMIT == 3
BLE_STABLE_AGE_MS == 2000
BURST_REPEATS == 3
BURST_SPACING_MS == 30
SUPPRESS_EXTRA_MS == 120
CONFIRMATION_DELAY_MS == 50
RETRY_DELAY_MS == 150
UI_SYNC_MS == 2000
SYSTEM_WATCHDOG_MS == 30000
WATCHDOG_PERIOD_MS == 5000
UI_HEALTH_MS == 5000
UI_FREEZE_MS == 10000
WATCHDOG_ERROR_LIMIT == 10

(***************************************************************************)
(* Bounds of the model.                                                    *)
(***************************************************************************)
\* length of systemEventQueue (20 in the firmware)
MaxSystemEvents == 1
\* length of uiRenderQueue (15 in the firmware)
MaxUICommands == 1
\* length of bleCommandQueue (10 in the firmware)
MaxBleCommands == 1
\* length of buttonEventQueue (5 in the firmware)
MaxButtonEvents == 1
\* the tick counter stops at MaxNow
MaxNow == 2100
\* one step of the tick counter
TickMs == 2100
\* indicationFailureCount is followed up to MaxFailures
MaxFailures == 3
\* millis() is followed up to MaxMillis
MaxMillis == 6100
\* a run of passes on which nothing changes
SlowPassMs == 1000
\* the environment connects or disconnects, writes and presses this often
MaxLinks == 2
MaxWrites == 1
MaxPresses == 1
\* the same in the first MaxNow milliseconds
BurstLinks == 2
BurstWrites == 2
BurstPresses == 1

pdMS_TO_TICKS(ms) == ms

VARIABLES
    btn,               \* ButtonManagerTask: its locals and the millis() it samples
    env,               \* what the user and the app have done so far
    now,               \* xTaskGetTickCount()
    systemStatus,      \* static SystemStatus_t systemStatus
    bleHealth,         \* static BLEConnectionHealth_t bleHealth
    systemEvents,      \* event group bits
    systemEventQueue,
    uiRenderQueue,
    bleCommandQueue,
    buttonEventQueue,
    stateMutex,        \* "free" or the task that holds it
    displayMutex,      \* "free" or the task that holds it
    timers,            \* which software timers are active
    sm,                \* SystemManagerTask: position and locals
    hw,                \* HardwareTask: position and locals
    ui,                \* UIManagerTask: locals
    wd,                \* WatchdogTask: position and locals, and the watchdog timer
    tx,                \* observer: has the Controller applied the button's request
    timeoutFor         \* observer: the state whose timer raised the queued Timeout

vars == <<btn, env, now, systemStatus, bleHealth, systemEvents, systemEventQueue,
          uiRenderQueue, bleCommandQueue, buttonEventQueue, stateMutex,
          displayMutex, timers, sm, hw, ui, wd, tx, timeoutFor>>

(***************************************************************************)
(* Command tokens, as the characters the app writes.                       *)
(***************************************************************************)
TokLogin == <<"L", "o", "g", "i", "n">>
TokLoginSuffixed == <<"L", "o", "g", "i", "n", "1">>
TokUnlock == <<"U", "n", "l", "o", "c", "k">>
TokRecord == <<"R", "e", "c", "o", "r", "d">>
TokUpload == <<"U", "p", "l", "o", "a", "d">>
TokLogout == <<"L", "o", "g", "o", "u", "t">>
TokSetup == <<"S", "e", "t", "u", "p">>
TokLowerUnlock == <<"u", "n", "l", "o", "c", "k">>
TokUnlockSuffixed == <<"U", "n", "l", "o", "c", "k", "1">>
TokLog == <<"L", "o", "g">>
TokUpperLogin == <<"L", "O", "G", "I", "N">>
TokEmpty == <<>>

KnownTokens == {TokLogin, TokLoginSuffixed, TokUnlock, TokRecord, TokUpload,
                TokLogout, TokSetup}
AllTokens == KnownTokens \cup {TokLowerUnlock, TokUnlockSuffixed, TokLog,
                               TokUpperLogin, TokEmpty}

\* String::startsWith and String::equals
startsWith(s, prefix) ==
    /\ Len(s) >= Len(prefix)
    /\ SubSeq(s, 1, Len(prefix)) = prefix
equals(s, t) == s = t

\* a variant of ParseCommand that accepts every command by its prefix
ParseCommand_ByPrefix(command) ==
    IF startsWith(command, TokLogin) THEN STATE_LOGIN
    ELSE IF startsWith(command, TokUnlock) THEN STATE_UNLOCK
    ELSE IF startsWith(command, TokRecord) THEN STATE_RECORDING
    ELSE IF startsWith(command, TokUpload) THEN STATE_UPLOADING
    ELSE IF startsWith(command, TokLogout) THEN STATE_LOGO
    ELSE IF startsWith(command, TokSetup) THEN STATE_SETUP
    ELSE STATE_MAX

\* A parser in which the Logout command requests Startup
ParseCommand_LogoutRestarts(command) ==
    IF startsWith(command, TokLogin) THEN STATE_LOGIN
    ELSE IF equals(command, TokUnlock) THEN STATE_UNLOCK
    ELSE IF equals(command, TokRecord) THEN STATE_RECORDING
    ELSE IF equals(command, TokUpload) THEN STATE_UPLOADING
    ELSE IF equals(command, TokLogout) THEN STATE_STARTUP
    ELSE IF equals(command, TokSetup) THEN STATE_SETUP
    ELSE STATE_MAX

\* BLEManagerTask, lines 607-636: the target state of a command, STATE_MAX
\* for a command that is not recognised
ParseCommand(command) ==
    IF startsWith(command, TokLogin) THEN STATE_LOGIN
    ELSE IF equals(command, TokUnlock) THEN STATE_UNLOCK
    ELSE IF equals(command, TokRecord) THEN STATE_RECORDING
    ELSE IF equals(command, TokUpload) THEN STATE_UPLOADING
    ELSE IF equals(command, TokLogout) THEN STATE_LOGO
    ELSE IF equals(command, TokSetup) THEN STATE_SETUP
    ELSE STATE_MAX

(***************************************************************************)
(* State machine helpers                                                   *)
(***************************************************************************)
\* a variant of getStateTimeout that gives Unlock the budget of Login
getStateTimeout_LongUnlock(state) ==
    CASE state \in {STATE_SETUP, STATE_LOGIN, STATE_UNLOCK} -> 180000
      [] state \in {STATE_RECORDING, STATE_UPLOADING} -> 240000
      [] state = STATE_ERROR -> 30000
      [] OTHER -> 0

getStateTimeout(state) ==
    CASE state \in {STATE_SETUP, STATE_LOGIN} -> 180000
      [] state = STATE_UNLOCK -> 120000
      [] state \in {STATE_RECORDING, STATE_UPLOADING} -> 240000
      [] state = STATE_ERROR -> 30000
      [] OTHER -> 0

\* a variant that does not count the return from Uploading to Unlock
isCriticalTransition_OneWay(oldState, newState) ==
    \/ oldState = STATE_UNLOCK /\ newState = STATE_RECORDING
    \/ oldState = STATE_RECORDING /\ newState = STATE_UPLOADING

isCriticalTransition(oldState, newState) ==
    \/ oldState = STATE_UNLOCK /\ newState = STATE_RECORDING
    \/ oldState = STATE_RECORDING /\ newState = STATE_UPLOADING
    \/ oldState = STATE_UPLOADING /\ newState = STATE_UNLOCK

\* a variant that puts the item at the head of the queue
xQueueSend_ToFront(queue, item, length) ==
    IF Len(queue) < length THEN <<item>> \o queue ELSE queue

\* xQueueSend on a queue of the given length: the item is added if there is
\* room, and the call fails once its wait is over otherwise
xQueueSend(queue, item, length) ==
    IF Len(queue) < length THEN Append(queue, item) ELSE queue

\* A message whose priority is given only together with a forced refresh
UIMsg_PriorityOnlyForced(cmd, state, forceRefresh, highPriority) ==
    [command |-> cmd, state |-> state, forceRefresh |-> forceRefresh,
     highPriority |-> forceRefresh]

UIMsg(cmd, state, forceRefresh, highPriority) ==
    [command |-> cmd, state |-> state, forceRefresh |-> forceRefresh,
     highPriority |-> highPriority]

\* a variant of sendUICommandEnhanced that drops every command on a full queue
sendUICommandEnhanced_Drops(queue, cmd, state, forceRefresh, highPriority) ==
    LET uiMsg == UIMsg(cmd, state, forceRefresh, highPriority) IN
    IF Len(queue) < MaxUICommands THEN Append(queue, uiMsg) ELSE queue

\* a full queue drops the command, or for a high priority command is reset
\* and then takes the command
sendUICommandEnhanced(queue, cmd, state, forceRefresh, highPriority) ==
    LET uiMsg == UIMsg(cmd, state, forceRefresh, highPriority) IN
    IF Len(queue) < MaxUICommands THEN Append(queue, uiMsg)
    ELSE IF highPriority THEN <<uiMsg>>
    ELSE queue

sendUICommand(queue, cmd, state) ==
    sendUICommandEnhanced(queue, cmd, state, FALSE, FALSE)

showMessage(queue) == sendUICommand(queue, "UI_CMD_SHOW_MESSAGE", STATE_MAX)

SysEvent(event, targetState) == [event |-> event, targetState |-> targetState]

\* a variant of ExitTimers that leaves the login-phase timer running
ExitTimers_KeepsLogin(tm, state) ==
    CASE state = STATE_LOGO -> [tm EXCEPT !.logoSwitch = FALSE]
      [] OTHER -> tm

\* executeStateExit: the timers it stops
ExitTimers(tm, state) ==
    CASE state = STATE_LOGO -> [tm EXCEPT !.logoSwitch = FALSE]
      [] state = STATE_LOGIN -> [tm EXCEPT !.loginScreen = FALSE]
      [] OTHER -> tm

\* executeStateExit sends UI_CMD_STOP_ANIMATION when it leaves these states
ExitSendsUI(state) == state \in {STATE_RECORDING, STATE_UPLOADING}

\* transitionToState, lines 1137-1152: the update made under stateMutex
\* a variant of UpdateState that forgets the state that is left
UpdateState_KeepsPrevious(st, newState, t) ==
    [st EXCEPT !.currentState = newState,
               !.stateEnterTime = t,
               !.stateTimeoutMs = getStateTimeout(newState)]

UpdateState(st, newState, t) ==
    LET oldState == st.currentState IN
    [st EXCEPT !.previousState = oldState,
               !.currentState = newState,
               !.stateEnterTime = t,
               !.stateTimeoutMs = getStateTimeout(newState),
               !.forceUIRefresh =
                   IF isCriticalTransition(oldState, newState) THEN TRUE ELSE @]

\* executeStateEntry: the flags it sets, each under stateMutex when the lock
\* can be taken
EntryStatus(st, state, locked) ==
    IF locked THEN st
    ELSE CASE state = STATE_LOGO -> [st EXCEPT !.isLogoAlt = FALSE]
           [] state = STATE_LOGIN -> [st EXCEPT !.isLoginFirstScreen = TRUE]
           [] state = STATE_UPLOADING -> [st EXCEPT !.isRecordingHoldToUpload = FALSE]
           [] OTHER -> st

\* executeStateEntry: the timers it starts
EntryTimers(tm, state) ==
    CASE state = STATE_LOGO -> [tm EXCEPT !.logoSwitch = TRUE]
      [] state = STATE_LOGIN -> [tm EXCEPT !.loginScreen = TRUE]
      [] OTHER -> tm

\* executeStateEntry: the UI commands it sends
EntryUI(queue, state) ==
    CASE state \in {STATE_SETUP, STATE_LOGIN, STATE_UNLOCK, STATE_ERROR} ->
             showMessage(queue)
      [] state \in {STATE_RECORDING, STATE_UPLOADING} ->
             sendUICommand(queue, "UI_CMD_START_ANIMATION", state)
      [] OTHER -> queue

\* a variant of ArmStateTimeout that only ever stops the timer
ArmStateTimeout_Stops(tm, timeoutMs) == [tm EXCEPT !.stateTimeout = FALSE]

\* transitionToState, lines 1162-1168
ArmStateTimeout(tm, timeoutMs) ==
    IF timeoutMs > 0
    THEN [tm EXCEPT !.stateTimeout = TRUE, !.statePeriod = pdMS_TO_TICKS(timeoutMs)]
    ELSE [tm EXCEPT !.stateTimeout = FALSE]

(***************************************************************************)
(* Initial state: the static initialisers and setup()                      *)
(***************************************************************************)
InitStatus ==
    [currentState |-> STATE_STARTUP,
     previousState |-> STATE_STARTUP,
     stateEnterTime |-> 0,
     lastActivityTime |-> 0,
     stateTimeoutMs |-> 0,
     errorCount |-> 0,
     lastUIState |-> STATE_STARTUP,
     lastUIUpdateTime |-> 0,
     uiMissedUpdates |-> 0,
     forceUIRefresh |-> FALSE,
     isLoginFirstScreen |-> TRUE,
     isRecordingHoldToUpload |-> FALSE,
     isLogoAlt |-> FALSE,
     lastBurstState |-> STATE_MAX,
     suppressAppCmdUntil |-> 0,
     bleBurstActive |-> FALSE]

InitHealth ==
    [isConnected |-> FALSE,
     connectionTime |-> 0,
     indicationFailureCount |-> 0,
     connectionStable |-> FALSE]

InitTimers ==
    [stateTimeout |-> FALSE, statePeriod |-> pdMS_TO_TICKS(5000),
     loginScreen |-> FALSE, logoSwitch |-> FALSE]

InitEnv == [links |-> MaxLinks, writes |-> MaxWrites, presses |-> MaxPresses]

\* digitalRead levels
HIGH == 1
LOW == 0
InitBtn == [lastButtonState |-> HIGH, pressStartTime |-> 0, pressProcessed |-> FALSE,
            millis |-> 0]

InitSm == [pc |-> "boot", newState |-> STATE_STARTUP, oldState |-> STATE_STARTUP,
           result |-> "none"]

InitHw == [pc |-> "idle", target |-> STATE_MAX, burst |-> 0, retry |-> 0,
           maxRetries |-> 0, indicationSent |-> FALSE]

\* the locals of the two tasks of core 1: lastDisplayedState and lastSyncCheck
\* of UIManagerTask, lastHealthCheck of LVGLTask
InitUi == [lastDisplayedState |-> STATE_STARTUP, lastSyncCheck |-> 0,
           lastHealthCheck |-> 0]

\* WatchdogTask sleeps 5 s between passes; systemWatchdogTimer has a 30 s period
InitWd == [pc |-> "sample", currentTime |-> 0, wake |-> 0,
           timerDue |-> pdMS_TO_TICKS(SYSTEM_WATCHDOG_MS)]

\* (errorCalls is an observer: the calls of handleSystemError since the boot;
\* so is firstCallPending: the link has come up and sendBLEButtonIndication
\* has not begun its retry loop since)
InitTx == [applied |-> FALSE, burstState |-> STATE_MAX, burstStart |-> 0,
           errorCalls |-> 0, firstCallPending |-> FALSE]

Init ==
    /\ btn = InitBtn
    /\ env = InitEnv
    /\ now = 0
    /\ systemStatus = InitStatus
    /\ bleHealth = InitHealth
    /\ systemEvents = {}
    /\ systemEventQueue = <<>>
    /\ uiRenderQueue = <<>>
    /\ bleCommandQueue = <<>>
    /\ buttonEventQueue = <<>>
    /\ stateMutex = "free"
    /\ displayMutex = "free"
    /\ timers = InitTimers
    /\ sm = InitSm
    /\ hw = InitHw
    /\ ui = InitUi
    /\ wd = InitWd
    /\ tx = InitTx
    /\ timeoutFor = STATE_MAX

(***************************************************************************)
(* SystemManagerTask and transitionToState                                 *)
(***************************************************************************)
\* observer: the Controller has made newState the current state while a
\* button request for it is being served by HardwareTask
Observe(newState) ==
    [tx EXCEPT !.applied = @ \/ (hw.pc # "idle" /\ newState = hw.target)]

\* a variant of IsValidState that lets STATE_MAX through
IsValidState_Lenient(newState) == newState <= STATE_MAX

\* the validation of the target state, line 1128
IsValidState(newState) == newState < STATE_MAX

\* transitionToState up to the release of stateMutex (lines 1123-1154), from
\* the status st.  The exit action of Recording and Uploading sends a UI
\* command while the lock is held: on a full uiRenderQueue the task blocks
\* in xQueueSend with the lock.
TransitionBegin(newState, st) ==
    IF stateMutex # "free" THEN
        /\ sm' = [sm EXCEPT !.pc = "receive", !.newState = newState,
                            !.oldState = st.currentState, !.result = "lockTimeout"]
        /\ systemStatus' = st
        /\ UNCHANGED <<uiRenderQueue, timers, stateMutex, tx>>
    ELSE IF ~IsValidState(newState) THEN
        /\ sm' = [sm EXCEPT !.pc = "receive", !.newState = newState,
                            !.oldState = st.currentState, !.result = "rejected"]
        /\ systemStatus' = st
        /\ UNCHANGED <<uiRenderQueue, timers, stateMutex, tx>>
    ELSE IF ExitSendsUI(st.currentState) /\ Len(uiRenderQueue) >= MaxUICommands THEN
        /\ sm' = [pc |-> "exitBlocked", newState |-> newState,
                  oldState |-> st.currentState, result |-> "none"]
        /\ stateMutex' = "sm"
        /\ systemStatus' = st
        /\ timers' = ExitTimers(timers, st.currentState)
        /\ UNCHANGED <<uiRenderQueue, tx>>
    ELSE
        /\ sm' = [pc |-> "entry", newState |-> newState,
                  oldState |-> st.currentState, result |-> "none"]
        /\ uiRenderQueue' =
               IF ExitSendsUI(st.currentState)
               THEN sendUICommand(uiRenderQueue, "UI_CMD_STOP_ANIMATION", st.currentState)
               ELSE uiRenderQueue
        /\ timers' = ExitTimers(timers, st.currentState)
        /\ systemStatus' = UpdateState(st, newState, now)
        /\ tx' = Observe(newState)
        /\ UNCHANGED stateMutex

\* SystemManagerTask, line 559
SM_Boot ==
    /\ sm.pc = "boot"
    /\ TransitionBegin(STATE_LOGO, systemStatus)
    /\ UNCHANGED <<timeoutFor, displayMutex, wd, btn, env, now, bleHealth, systemEvents, systemEventQueue, bleCommandQueue,
                   buttonEventQueue, hw, ui>>

\* a variant of SM_Receive that puts the event back at the end of the queue
\* when transitionToState did not obtain stateMutex
SM_Receive_Requeue ==
    /\ sm.pc = "receive"
    /\ systemEventQueue # <<>>
    /\ systemEventQueue' = IF stateMutex = "free"
                           THEN Tail(systemEventQueue)
                           ELSE Append(Tail(systemEventQueue), Head(systemEventQueue))
    /\ TransitionBegin(Head(systemEventQueue).targetState,
                       IF stateMutex = "free"
                       THEN [systemStatus EXCEPT !.lastActivityTime = now]
                       ELSE systemStatus)
    /\ timeoutFor' = IF Head(systemEventQueue).event = "EVENT_TIMEOUT"
                     THEN STATE_MAX ELSE timeoutFor
    /\ UNCHANGED <<displayMutex, wd, btn, env, now, bleHealth, systemEvents, bleCommandQueue,
                   buttonEventQueue, hw, ui>>

\* SystemManagerTask, lines 562-574: one event is received, lastActivityTime is
\* refreshed and transitionToState is called with the target of the event
SM_Receive ==
    /\ sm.pc = "receive"
    /\ systemEventQueue # <<>>
    /\ systemEventQueue' = Tail(systemEventQueue)
    /\ TransitionBegin(Head(systemEventQueue).targetState,
                       IF stateMutex = "free"
                       THEN [systemStatus EXCEPT !.lastActivityTime = now]
                       ELSE systemStatus)
    /\ timeoutFor' = IF Head(systemEventQueue).event = "EVENT_TIMEOUT"
                     THEN STATE_MAX ELSE timeoutFor
    /\ UNCHANGED <<displayMutex, wd, btn, env, now, bleHealth, systemEvents, bleCommandQueue,
                   buttonEventQueue, hw, ui>>

\* the xQueueSend of executeStateExit returns (the queue has room again, or
\* the 100 ms are over and the command is dropped); the update follows and
\* the lock is released
SM_ExitUnblocked ==
    /\ sm.pc = "exitBlocked"
    /\ uiRenderQueue' = sendUICommand(uiRenderQueue, "UI_CMD_STOP_ANIMATION", sm.oldState)
    /\ systemStatus' = UpdateState(systemStatus, sm.newState, now)
    /\ stateMutex' = "free"
    /\ sm' = [sm EXCEPT !.pc = "entry"]
    /\ tx' = Observe(sm.newState)
    /\ UNCHANGED <<timeoutFor, displayMutex, wd, btn, env, now, bleHealth, systemEvents, systemEventQueue, bleCommandQueue,
                   buttonEventQueue, timers, hw, ui>>

\* a variant of SM_Entry whose entry action of Logo asks for a further
\* transition through the system event queue
SM_Entry_Chained ==
    /\ sm.pc = "entry"
    /\ systemStatus' = EntryStatus(systemStatus, sm.newState, stateMutex # "free")
    /\ uiRenderQueue' =
           sendUICommandEnhanced(EntryUI(uiRenderQueue, sm.newState),
                                 "UI_CMD_LOAD_SCREEN", sm.newState,
                                 isCriticalTransition(sm.oldState, sm.newState), TRUE)
    /\ timers' = ArmStateTimeout(EntryTimers(timers, sm.newState),
                                 systemStatus.stateTimeoutMs)
    /\ systemEventQueue' =
           IF sm.newState = STATE_LOGO
           THEN xQueueSend(systemEventQueue, SysEvent("EVENT_TIMEOUT", STATE_SETUP),
                           MaxSystemEvents + 1)
           ELSE systemEventQueue
    /\ sm' = [sm EXCEPT !.pc = "receive", !.result = "ok"]
    /\ UNCHANGED <<timeoutFor, displayMutex, wd, btn, env, now, bleHealth, systemEvents, bleCommandQueue,
                   buttonEventQueue, stateMutex, hw, ui, tx>>

\* transitionToState after the release of stateMutex (lines 1156-1170):
\* entry action, LoadScreen command, state timeout timer
SM_Entry ==
    /\ sm.pc = "entry"
    /\ systemStatus' = EntryStatus(systemStatus, sm.newState, stateMutex # "free")
    /\ uiRenderQueue' =
           sendUICommandEnhanced(EntryUI(uiRenderQueue, sm.newState),
                                 "UI_CMD_LOAD_SCREEN", sm.newState,
                                 isCriticalTransition(sm.oldState, sm.newState), TRUE)
    /\ timers' = ArmStateTimeout(EntryTimers(timers, sm.newState),
                                 systemStatus.stateTimeoutMs)
    /\ sm' = [sm EXCEPT !.pc = "receive", !.result = "ok"]
    /\ UNCHANGED <<timeoutFor, displayMutex, wd, btn, env, now, bleHealth, systemEvents, systemEventQueue, bleCommandQueue,
                   buttonEventQueue, stateMutex, hw, ui, tx>>

(***************************************************************************)
(* Timer callbacks                                                         *)
(***************************************************************************)
\* the state stateTimeoutTimer is armed for: the timer is armed again at the
\* end of transitionToState, so during the entry action it is still the one
\* of the state just left
TimerArmedFor ==
    IF sm.pc = "entry" THEN sm.oldState ELSE systemStatus.currentState

\* one-shot; the event is sent without waiting
stateTimeoutCallback ==
    /\ timers.stateTimeout
    /\ timers' = [timers EXCEPT !.stateTimeout = FALSE]
    /\ systemEventQueue' = xQueueSend(systemEventQueue,
                                      SysEvent("EVENT_TIMEOUT", STATE_LOGO),
                                      MaxSystemEvents)
    /\ timeoutFor' = IF Len(systemEventQueue) < MaxSystemEvents
                     THEN TimerArmedFor ELSE timeoutFor
    /\ UNCHANGED <<displayMutex, wd, btn, env, now, systemStatus, bleHealth, systemEvents, uiRenderQueue,
                   bleCommandQueue, buttonEventQueue, stateMutex, sm, hw, ui, tx>>

\* one-shot, 3.5 s after the entry into Login
loginScreenTimerCallback ==
    /\ timers.loginScreen
    /\ timers' = [timers EXCEPT !.loginScreen = FALSE]
    /\ IF stateMutex = "free" /\ systemStatus.currentState = STATE_LOGIN
       THEN /\ systemStatus' = [systemStatus EXCEPT !.isLoginFirstScreen = FALSE]
            /\ uiRenderQueue' = sendUICommandEnhanced(uiRenderQueue, "UI_CMD_LOAD_SCREEN",
                                                      STATE_LOGIN, TRUE, TRUE)
       ELSE UNCHANGED <<systemStatus, uiRenderQueue>>
    /\ UNCHANGED <<timeoutFor, displayMutex, wd, btn, env, now, bleHealth, systemEvents, systemEventQueue, bleCommandQueue,
                   buttonEventQueue, stateMutex, sm, hw, ui, tx>>

\* periodic, every 3 s while it is active
logoSwitchTimerCallback ==
    /\ timers.logoSwitch
    /\ IF stateMutex = "free" /\ systemStatus.currentState = STATE_LOGO
       THEN /\ systemStatus' = [systemStatus EXCEPT !.isLogoAlt = ~@]
            /\ uiRenderQueue' = sendUICommandEnhanced(uiRenderQueue, "UI_CMD_LOAD_SCREEN",
                                                      STATE_LOGO, TRUE, TRUE)
       ELSE UNCHANGED <<systemStatus, uiRenderQueue>>
    /\ UNCHANGED <<timeoutFor, displayMutex, wd, btn, env, now, bleHealth, systemEvents, systemEventQueue, bleCommandQueue,
                   buttonEventQueue, stateMutex, timers, sm, hw, ui, tx>>

(***************************************************************************)
(* UIManagerTask: one render command is received and processed             *)
(***************************************************************************)
MaxMissedUpdates == 2

\* the command at the head of the queue is processed; taken tells whether
\* stateMutex was obtained for the status update
UIManagerProcess(taken) ==
    /\ uiRenderQueue # <<>>
    /\ uiRenderQueue' = Tail(uiRenderQueue)
    /\ LET uiMsg == Head(uiRenderQueue) IN
       IF uiMsg.command # "UI_CMD_LOAD_SCREEN"
       THEN UNCHANGED <<ui, systemStatus>>
       ELSE IF uiMsg.forceRefresh \/ uiMsg.state # ui.lastDisplayedState \/ uiMsg.highPriority
       THEN /\ ui' = [ui EXCEPT !.lastDisplayedState = uiMsg.state]
            /\ systemStatus' =
                   IF taken
                   THEN [systemStatus EXCEPT !.lastUIState = uiMsg.state,
                                             !.lastUIUpdateTime = now,
                                             !.forceUIRefresh = FALSE]
                   ELSE systemStatus
       ELSE /\ systemStatus.uiMissedUpdates < MaxMissedUpdates
            /\ ui' = ui
            /\ systemStatus' =
                   IF taken
                   THEN [systemStatus EXCEPT !.uiMissedUpdates = @ + 1]
                   ELSE systemStatus

\* one command handled in one step: displayMutex is taken and given back, and
\* stateMutex is obtained for the status update when it is free
UIManagerReceive ==
    /\ displayMutex = "free"
    /\ UIManagerProcess(stateMutex = "free")
    /\ UNCHANGED <<timeoutFor, displayMutex, wd, btn, env, now, bleHealth, systemEvents, systemEventQueue,
                   bleCommandQueue, buttonEventQueue, stateMutex, timers, sm, hw, tx>>

(***************************************************************************)
(* The tick counter                                                        *)
(***************************************************************************)
Tick ==
    /\ now + TickMs <= MaxNow
    /\ now' = now + TickMs
    /\ UNCHANGED <<timeoutFor, displayMutex, wd, btn, env, systemStatus, bleHealth, systemEvents, systemEventQueue,
                   uiRenderQueue, bleCommandQueue, buttonEventQueue, stateMutex,
                   timers, sm, hw, ui, tx>>

(***************************************************************************)
(* Scheduling on core 0: SystemManagerTask has the highest priority of the *)
(* tasks pinned there (5, against 4, 3 and 2) and waits only for an event, *)
(* for stateMutex or for room in uiRenderQueue, so BLEManagerTask,         *)
(* ButtonManagerTask and HardwareTask run only while it is blocked.        *)
(***************************************************************************)
SystemManagerRunnable ==
    \/ sm.pc \in {"boot", "entry"}
    \/ sm.pc = "receive" /\ systemEventQueue # <<>>

(***************************************************************************)
(* BLE server and characteristic callbacks                                 *)
(***************************************************************************)
onConnect ==
    /\ env.links > 0
    /\ env' = [env EXCEPT !.links = @ - 1]
    /\ ~bleHealth.isConnected
    /\ systemEvents' = systemEvents \cup {"BLE_CONNECTED"}
    /\ bleHealth' = [bleHealth EXCEPT !.isConnected = TRUE,
                                      !.connectionTime = now,
                                      !.connectionStable = FALSE,
                                      !.indicationFailureCount = 0]
    /\ systemEventQueue' = xQueueSend(systemEventQueue,
                                      SysEvent("EVENT_BLE_CONNECTED", STATE_LOGIN),
                                      MaxSystemEvents)
    /\ tx' = [tx EXCEPT !.firstCallPending = TRUE]
    /\ UNCHANGED <<timeoutFor, displayMutex, wd, btn, now, systemStatus, uiRenderQueue, bleCommandQueue, buttonEventQueue,
                   stateMutex, timers, sm, hw, ui>>

onDisconnect ==
    /\ env.links > 0
    /\ env' = [env EXCEPT !.links = @ - 1]
    /\ bleHealth.isConnected
    /\ systemEvents' = systemEvents \ {"BLE_CONNECTED"}
    /\ bleHealth' = [bleHealth EXCEPT !.isConnected = FALSE,
                                      !.connectionStable = FALSE,
                                      !.indicationFailureCount = 0]
    /\ systemEventQueue' = xQueueSend(systemEventQueue,
                                      SysEvent("EVENT_BLE_DISCONNECTED", STATE_LOGO),
                                      MaxSystemEvents)
    /\ UNCHANGED <<timeoutFor, displayMutex, wd, btn, now, systemStatus, uiRenderQueue, bleCommandQueue, buttonEventQueue,
                   stateMutex, timers, sm, hw, ui, tx>>

\* the app writes a command to one of the write characteristics
onWrite(command) ==
    /\ env.writes > 0
    /\ env' = [env EXCEPT !.writes = @ - 1]
    /\ bleHealth.isConnected
    /\ bleCommandQueue' = xQueueSend(bleCommandQueue, [command |-> command],
                                     MaxBleCommands)
    /\ UNCHANGED <<timeoutFor, displayMutex, wd, btn, now, systemStatus, bleHealth, systemEvents, systemEventQueue,
                   uiRenderQueue, buttonEventQueue, stateMutex, timers, sm, hw, ui, tx>>

(***************************************************************************)
(* Burst suppression                                                       *)
(***************************************************************************)
\* sendBLEButtonIndicationBurst, line 1567
SuppressionMs(repeats, spacing_ms) ==
    (IF repeats > 0 THEN (repeats - 1) * spacing_ms ELSE 0) + SUPPRESS_EXTRA_MS

\* a variant of startAppCmdSuppression that also makes the burst's state current
startAppCmdSuppression_SetsState(st, state, duration_ms, t, locked) ==
    IF locked THEN st
    ELSE [st EXCEPT !.currentState = state,
                    !.lastBurstState = state,
                    !.suppressAppCmdUntil = t + pdMS_TO_TICKS(duration_ms)]

\* nothing is installed when stateMutex cannot be taken within 50 ms
startAppCmdSuppression(st, state, duration_ms, t, locked) ==
    IF locked THEN st
    ELSE [st EXCEPT !.lastBurstState = state,
                    !.suppressAppCmdUntil = t + pdMS_TO_TICKS(duration_ms)]

\* false when stateMutex cannot be taken within 20 ms
isAppCmdSuppressed(st, state, t, locked) ==
    IF locked THEN FALSE
    ELSE state = st.lastBurstState /\ t < st.suppressAppCmdUntil

(***************************************************************************)
(* BLEManagerTask: one command is received and handled                     *)
(***************************************************************************)
BLEManagerTask ==
    /\ ~SystemManagerRunnable
    /\ bleCommandQueue # <<>>
    /\ bleCommandQueue' = Tail(bleCommandQueue)
    /\ LET command == Head(bleCommandQueue).command
           targetState == ParseCommand(command)
       IN IF targetState = STATE_MAX
          THEN UNCHANGED systemEventQueue
          ELSE IF isAppCmdSuppressed(systemStatus, targetState, now, stateMutex # "free")
          THEN UNCHANGED systemEventQueue
          ELSE systemEventQueue' = xQueueSend(systemEventQueue,
                                    SysEvent("EVENT_APP_COMMAND", targetState),
                                    MaxSystemEvents)
    /\ UNCHANGED <<timeoutFor, displayMutex, wd, btn, env, now, systemStatus, bleHealth, systemEvents, uiRenderQueue,
                   buttonEventQueue, stateMutex, timers, sm, hw, ui, tx>>

(***************************************************************************)
(* BLE connection health                                                   *)
(***************************************************************************)
isBLEConnected(events) == "BLE_CONNECTED" \in events

isBLEConnectionStable(events, health, t) ==
    IF ~isBLEConnected(events) THEN FALSE
    ELSE /\ t - health.connectionTime > pdMS_TO_TICKS(BLE_STABLE_AGE_MS)
         /\ health.indicationFailureCount < BLE_FAILURE_LIMIT
         /\ health.connectionStable

\* a variant of updateBLEConnectionHealth that gives up one failure later
updateBLEConnectionHealth_Late(health, indicationSuccess) ==
    IF indicationSuccess
    THEN [health EXCEPT !.indicationFailureCount = 0,
                        !.connectionStable = TRUE]
    ELSE [health EXCEPT !.indicationFailureCount = @ + 1,
                        !.connectionStable =
                            IF health.indicationFailureCount + 1 > BLE_FAILURE_CAP + 1
                            THEN FALSE ELSE @]

\* (lastSuccessfulIndication and totalIndicationsSent are only printed by
\* debugBLEHealth and are left out)
updateBLEConnectionHealth(health, indicationSuccess) ==
    IF indicationSuccess
    THEN [health EXCEPT !.indicationFailureCount = 0,
                        !.connectionStable = TRUE]
    ELSE [health EXCEPT !.indicationFailureCount = @ + 1,
                        !.connectionStable =
                            IF health.indicationFailureCount + 1 > BLE_FAILURE_CAP
                            THEN FALSE ELSE @]

(***************************************************************************)
(* ButtonManagerTask as the producer of classified button events           *)
(***************************************************************************)
\* a variant of ReleaseEvent with the threshold itself still short
ReleaseEvent_Strict(pressDuration) ==
    [pressed |-> FALSE, duration |-> pressDuration,
     isLongPress |-> pressDuration > LONG_PRESS_MS]

\* the event built on a release (lines 686-699)
ReleaseEvent(pressDuration) ==
    [pressed |-> FALSE, duration |-> pressDuration,
     isLongPress |-> pressDuration >= LONG_PRESS_MS]

\* a variant of HoldEvent that reports the button as released
HoldEvent_Released(pressDuration) ==
    [pressed |-> FALSE, duration |-> pressDuration, isLongPress |-> TRUE]

\* the event built while the button is still held (lines 702-716)
HoldEvent(pressDuration) ==
    [pressed |-> TRUE, duration |-> pressDuration, isLongPress |-> TRUE]

\* press durations a user produces, either side of the threshold
PressDurations == {LONG_PRESS_MS - 1, LONG_PRESS_MS}

ButtonManagerSend ==
    /\ env.presses > 0
    /\ env' = [env EXCEPT !.presses = @ - 1]
    /\ ~SystemManagerRunnable
    /\ \E d \in PressDurations :
         \E buttonEvent \in {ReleaseEvent(d)} \cup
                            (IF d >= LONG_PRESS_MS THEN {HoldEvent(d)} ELSE {}) :
            buttonEventQueue' = xQueueSend(buttonEventQueue, buttonEvent,
                                           MaxButtonEvents)
    /\ UNCHANGED <<timeoutFor, displayMutex, wd, btn, now, systemStatus, bleHealth, systemEvents, systemEventQueue,
                   uiRenderQueue, bleCommandQueue, stateMutex, timers, sm, hw, ui, tx>>

(***************************************************************************)
(* HardwareTask                                                            *)
(***************************************************************************)
\* the switch on (isLongPress, currentState), lines 756-803; STATE_MAX when
\* the press has no meaning in the state
\* a variant in which a short press in Login asks for Setup
ButtonTarget_LoginShort(currentState, isLongPress) ==
    IF isLongPress
    THEN CASE currentState = STATE_LOGIN     -> STATE_UNLOCK
           [] currentState = STATE_RECORDING -> STATE_UPLOADING
           [] OTHER                          -> STATE_MAX
    ELSE CASE currentState = STATE_UNLOCK    -> STATE_RECORDING
           [] currentState = STATE_RECORDING -> STATE_RECORDING
           [] currentState = STATE_LOGIN     -> STATE_SETUP
           [] OTHER                          -> STATE_MAX

ButtonTarget(currentState, isLongPress) ==
    IF isLongPress
    THEN CASE currentState = STATE_LOGIN     -> STATE_UNLOCK
           [] currentState = STATE_RECORDING -> STATE_UPLOADING
           [] OTHER                          -> STATE_MAX
    ELSE CASE currentState = STATE_UNLOCK    -> STATE_RECORDING
           [] currentState = STATE_RECORDING -> STATE_RECORDING
           [] OTHER                          -> STATE_MAX

\* a button event is received and turned into a transition request
HW_Button ==
    /\ ~SystemManagerRunnable
    /\ hw.pc = "idle"
    /\ buttonEventQueue # <<>>
    /\ buttonEventQueue' = Tail(buttonEventQueue)
    /\ IF stateMutex # "free"
       THEN UNCHANGED <<systemStatus, systemEventQueue, hw, tx>>
       ELSE LET buttonEvent == Head(buttonEventQueue)
                currentState == systemStatus.currentState
                targetState == ButtonTarget(currentState, buttonEvent.isLongPress)
                event == IF buttonEvent.isLongPress THEN "EVENT_BUTTON_LONG_PRESS"
                                                    ELSE "EVENT_BUTTON_SHORT_PRESS"
                passed == targetState # STATE_MAX
                          /\ Len(systemEventQueue) < MaxSystemEvents
            IN /\ systemStatus' =
                    IF ~buttonEvent.isLongPress /\ currentState = STATE_RECORDING
                    THEN [systemStatus EXCEPT !.isRecordingHoldToUpload = TRUE]
                    ELSE systemStatus
               /\ systemEventQueue' =
                    IF targetState # STATE_MAX
                    THEN xQueueSend(systemEventQueue, SysEvent(event, targetState),
                                    MaxSystemEvents)
                    ELSE systemEventQueue
               /\ hw' = IF passed THEN [hw EXCEPT !.pc = "delay", !.target = targetState]
                        ELSE hw
               /\ tx' = IF passed
                        THEN [tx EXCEPT !.applied = (currentState = targetState)]
                        ELSE tx
    /\ UNCHANGED <<timeoutFor, displayMutex, wd, btn, env, now, bleHealth, systemEvents, uiRenderQueue, bleCommandQueue,
                   stateMutex, timers, sm, ui>>

\* sendBLEButtonIndicationBurst up to its loop (lines 1558-1569)
HW_BurstStart ==
    /\ ~SystemManagerRunnable
    /\ hw.pc = "delay"
    /\ LET locked == stateMutex # "free"
           marked == IF locked THEN systemStatus
                     ELSE [systemStatus EXCEPT !.bleBurstActive = TRUE]
       IN systemStatus' = startAppCmdSuppression(marked, hw.target,
                              SuppressionMs(BURST_REPEATS, BURST_SPACING_MS),
                              now, locked)
    /\ hw' = [hw EXCEPT !.pc = "call", !.burst = 0]
    /\ tx' = [tx EXCEPT !.burstState = hw.target, !.burstStart = now]
    /\ UNCHANGED <<timeoutFor, displayMutex, wd, btn, env, now, bleHealth, systemEvents, systemEventQueue, uiRenderQueue,
                   bleCommandQueue, buttonEventQueue, stateMutex, timers, sm, ui>>

\* the characteristics table: the states that have an indication message
HasIndication(state) == state \in {STATE_UNLOCK, STATE_RECORDING, STATE_UPLOADING}

\* a variant of MaxRetriesFor that never extends the budget
MaxRetriesFor_Fixed(events, health, t) == BLE_RETRY_DEFAULT

\* the retry budget of one call (lines 1457-1465)
MaxRetriesFor(events, health, t) ==
    IF ~isBLEConnectionStable(events, health, t) THEN BLE_RETRY_UNSTABLE
    ELSE BLE_RETRY_DEFAULT

\* a variant of IndicationStateOk that does not look at the state
IndicationStateOk_Unchecked(st, state, locked) == TRUE

\* the verification before the retry loop (lines 1474-1488)
IndicationStateOk(st, state, locked) == ~locked /\ st.currentState = state

\* HardwareTask after one call of sendBLEButtonIndication has returned: the
\* next call of the burst, or the end of the burst (lines 1570-1579)
AfterCall(h) ==
    IF h.burst < BURST_REPEATS - 1
    THEN [h EXCEPT !.pc = "call", !.burst = @ + 1, !.retry = 0, !.maxRetries = 0,
                   !.indicationSent = FALSE]
    ELSE [pc |-> "idle", target |-> STATE_MAX, burst |-> 0, retry |-> 0,
          maxRetries |-> 0, indicationSent |-> FALSE]

\* the observer is reset when the burst is over
AfterCallTx(h) ==
    IF h.burst < BURST_REPEATS - 1 THEN tx ELSE [tx EXCEPT !.applied = FALSE]

BurstEndStatus(st, h, locked) ==
    IF h.burst < BURST_REPEATS - 1 \/ locked THEN st
    ELSE [st EXCEPT !.bleBurstActive = FALSE]

\* sendBLEButtonIndication up to its retry loop
HW_IndicationBegin ==
    /\ ~SystemManagerRunnable
    /\ hw.pc = "call"
    /\ IF HasIndication(hw.target)
          /\ IndicationStateOk(systemStatus, hw.target, stateMutex # "free")
       THEN /\ hw' = [hw EXCEPT !.pc = "attempt", !.retry = 0,
                                !.indicationSent = FALSE,
                                !.maxRetries = MaxRetriesFor(systemEvents, bleHealth, now)]
            /\ tx' = [tx EXCEPT !.firstCallPending = FALSE]
            /\ UNCHANGED systemStatus
       ELSE /\ hw' = AfterCall(hw)
            /\ tx' = AfterCallTx(hw)
            /\ systemStatus' = BurstEndStatus(systemStatus, hw, stateMutex # "free")
    /\ UNCHANGED <<timeoutFor, displayMutex, wd, btn, env, now, bleHealth, systemEvents, systemEventQueue, uiRenderQueue,
                   bleCommandQueue, buttonEventQueue, stateMutex, timers, sm, ui>>

\* one pass of the retry loop, made elapsed ms after the pass before it:
\* indicate() returns (ok) or throws; after the last pass the health is
\* updated and the call returns
HW_AttemptAfter(ok, elapsed) ==
    /\ ~SystemManagerRunnable
    /\ hw.pc = "attempt"
    /\ now' = now + elapsed
    /\ LET sent == hw.indicationSent \/ ok
           last == hw.retry + 1 >= hw.maxRetries
       IN /\ last /\ ~sent => bleHealth.indicationFailureCount < MaxFailures
          /\ tx' = IF last THEN AfterCallTx(hw) ELSE tx
          /\ IF last
             THEN /\ bleHealth' = updateBLEConnectionHealth(bleHealth, sent)
                  /\ hw' = AfterCall(hw)
                  /\ systemStatus' = BurstEndStatus(systemStatus, hw, stateMutex # "free")
             ELSE /\ hw' = [hw EXCEPT !.retry = @ + 1, !.indicationSent = sent]
                  /\ UNCHANGED <<bleHealth, systemStatus>>
    /\ UNCHANGED <<timeoutFor, displayMutex, wd, btn, env, systemEvents, systemEventQueue, uiRenderQueue,
                   bleCommandQueue, buttonEventQueue, stateMutex, timers, sm, ui>>

\* the pass where the clock is not followed through the delays of the loop
HW_Attempt(ok) == HW_AttemptAfter(ok, 0)

(***************************************************************************)
(* The firmware: all tasks, callbacks and timers interleaved               *)
(***************************************************************************)
Next ==
    \/ SM_Boot
    \/ SM_Receive
    \/ SM_ExitUnblocked
    \/ SM_Entry
    \/ stateTimeoutCallback
    \/ loginScreenTimerCallback
    \/ logoSwitchTimerCallback
    \/ UIManagerReceive
    \/ onConnect
    \/ onDisconnect
    \/ \E command \in AllTokens : onWrite(command)
    \/ BLEManagerTask
    \/ ButtonManagerSend
    \/ HW_Button
    \/ HW_BurstStart
    \/ HW_IndicationBegin
    \/ \E ok \in BOOLEAN : HW_Attempt(ok)

Spec == Init /\ [][Next]_vars

(***************************************************************************)
(* transitionToState under every argument: SystemManagerTask is idle and   *)
(* the function is called with any value of SystemState_t, the values      *)
(* outside the declared states included.                                   *)
(***************************************************************************)
TransitionArgs == 0 .. STATE_MAX + 1

\* the call is made: the argument is on the stack of SystemManagerTask
CallTransition(newState) ==
    /\ sm.pc = "receive"
    /\ sm' = [sm EXCEPT !.pc = "call", !.newState = newState, !.result = "none"]
    /\ UNCHANGED <<timeoutFor, displayMutex, wd, btn, env, now, systemStatus, bleHealth, systemEvents, systemEventQueue,
                   uiRenderQueue, bleCommandQueue, buttonEventQueue, stateMutex,
                   timers, hw, ui, tx>>

SM_Transition ==
    /\ sm.pc = "call"
    /\ TransitionBegin(sm.newState, systemStatus)
    /\ UNCHANGED <<timeoutFor, displayMutex, wd, btn, env, now, bleHealth, systemEvents, systemEventQueue,
                   bleCommandQueue, buttonEventQueue, hw, ui>>

NextTransition ==
    \/ SM_Boot
    \/ \E newState \in TransitionArgs : CallTransition(newState)
    \/ SM_Transition
    \/ SM_ExitUnblocked
    \/ SM_Entry
    \/ UIManagerReceive
    \/ Tick

SpecTransition == Init /\ [][NextTransition]_vars

(***************************************************************************)
(* The connection health: connections come and go, the Controller follows *)
(* them between Logo and Login, and sendBLEButtonIndication reports the    *)
(* result of a call.                                                       *)
(***************************************************************************)
\* line 1531: the call reports whether one of its attempts was sent
ReportIndication(indicationSent) ==
    /\ ~indicationSent => bleHealth.indicationFailureCount < MaxFailures
    /\ hw' = [hw EXCEPT !.indicationSent = indicationSent]
    /\ bleHealth' = updateBLEConnectionHealth(bleHealth, indicationSent)
    /\ UNCHANGED <<timeoutFor, displayMutex, wd, btn, env, now, systemStatus, systemEvents, systemEventQueue,
                   uiRenderQueue, bleCommandQueue, buttonEventQueue, stateMutex,
                   timers, sm, ui, tx>>

NextHealth ==
    \/ SM_Boot
    \/ SM_Receive
    \/ SM_Entry
    \/ UIManagerReceive
    \/ onConnect
    \/ onDisconnect
    \/ \E indicationSent \in BOOLEAN : ReportIndication(indicationSent)
    \/ Tick

SpecHealth == Init /\ [][NextHealth]_vars

(***************************************************************************)
(* ButtonManagerTask, one pass of its loop per step.  millis() is sampled  *)
(* at the top of the pass; the pin is read there and, on an edge, again    *)
(* after the debounce delay.  The next pass starts after the poll delay,   *)
(* or later when tasks of higher priority have run in between.             *)
(***************************************************************************)
\* the time from the end of the debounce delay to the next sample of millis():
\* a pass that follows passes on which nothing changed
LongWaitMs == LONG_PRESS_MS - BUTTON_DEBOUNCE_MS
ElapsedMs == {e \in {SlowPassMs, LongWaitMs - 1, LongWaitMs} : e >= BUTTON_POLL_MS}

ButtonManagerTask(currentButtonState, debounced, elapsed) ==
    /\ ~SystemManagerRunnable
    /\ LET currentTime == btn.millis
           pressDuration == currentTime - btn.pressStartTime
           edge == btn.lastButtonState # currentButtonState
           nextTime == currentTime + (IF edge THEN BUTTON_DEBOUNCE_MS ELSE 0) + elapsed
       IN /\ nextTime <= MaxMillis
          /\ ~edge => debounced = currentButtonState
          /\ IF btn.lastButtonState = HIGH /\ currentButtonState = LOW
             THEN /\ btn' = IF debounced = LOW
                            THEN [lastButtonState |-> currentButtonState,
                                  pressStartTime |-> currentTime,
                                  pressProcessed |-> FALSE, millis |-> nextTime]
                            ELSE [btn EXCEPT !.lastButtonState = currentButtonState,
                                             !.millis = nextTime]
                  /\ systemEvents' = IF debounced = LOW
                                     THEN systemEvents \cup {"BUTTON_PRESSED"}
                                     ELSE systemEvents
                  /\ UNCHANGED buttonEventQueue
             ELSE IF btn.lastButtonState = LOW /\ currentButtonState = HIGH
             THEN IF debounced = HIGH /\ ~btn.pressProcessed
                  THEN /\ buttonEventQueue' = xQueueSend(buttonEventQueue,
                                                         ReleaseEvent(pressDuration),
                                                         MaxButtonEvents)
                       /\ systemEvents' = systemEvents \ {"BUTTON_PRESSED"}
                       /\ btn' = [btn EXCEPT !.lastButtonState = currentButtonState,
                                             !.pressProcessed = TRUE,
                                             !.millis = nextTime]
                  ELSE /\ btn' = [btn EXCEPT !.lastButtonState = currentButtonState,
                                             !.millis = nextTime]
                       /\ UNCHANGED <<buttonEventQueue, systemEvents>>
             ELSE IF currentButtonState = LOW /\ ~btn.pressProcessed
                     /\ pressDuration >= LONG_PRESS_MS
             THEN /\ buttonEventQueue' = xQueueSend(buttonEventQueue,
                                                    HoldEvent(pressDuration),
                                                    MaxButtonEvents)
                  /\ btn' = [btn EXCEPT !.lastButtonState = currentButtonState,
                                        !.pressProcessed = TRUE,
                                        !.millis = nextTime]
                  /\ UNCHANGED systemEvents
             ELSE /\ btn' = [btn EXCEPT !.lastButtonState = currentButtonState,
                                        !.millis = nextTime]
                  /\ UNCHANGED <<buttonEventQueue, systemEvents>>
    /\ UNCHANGED <<timeoutFor, displayMutex, wd, env, now, systemStatus, bleHealth, systemEventQueue, uiRenderQueue,
                   bleCommandQueue, stateMutex, timers, sm, hw, ui, tx>>

NextButton ==
    \/ SM_Boot
    \/ SM_Entry
    \/ UIManagerReceive
    \/ \E currentButtonState \in {HIGH, LOW}, debounced \in {HIGH, LOW},
          elapsed \in ElapsedMs :
          ButtonManagerTask(currentButtonState, debounced, elapsed)
    \/ HW_Button

SpecButton == Init /\ [][NextButton]_vars

(***************************************************************************)
(* The first MaxNow milliseconds after power-up, with the tick counter.    *)
(* No timer expires in this time: the shortest period is 3 s.              *)
(***************************************************************************)
BurstCommands == {TokRecord, TokUpload}

InitBurst ==
    /\ btn = InitBtn
    /\ env = [links |-> BurstLinks, writes |-> BurstWrites, presses |-> BurstPresses]
    /\ now = 0
    /\ systemStatus = InitStatus
    /\ bleHealth = InitHealth
    /\ systemEvents = {}
    /\ systemEventQueue = <<>>
    /\ uiRenderQueue = <<>>
    /\ bleCommandQueue = <<>>
    /\ buttonEventQueue = <<>>
    /\ stateMutex = "free"
    /\ displayMutex = "free"
    /\ timers = InitTimers
    /\ sm = InitSm
    /\ hw = InitHw
    /\ ui = InitUi
    /\ wd = InitWd
    /\ tx = InitTx
    /\ timeoutFor = STATE_MAX

NextBurst ==
    \/ SM_Boot
    \/ SM_Receive
    \/ SM_ExitUnblocked
    \/ SM_Entry
    \/ UIManagerReceive
    \/ onConnect
    \/ onDisconnect
    \/ \E command \in BurstCommands : onWrite(command)
    \/ BLEManagerTask
    \/ ButtonManagerSend
    \/ HW_Button
    \/ HW_BurstStart
    \/ HW_IndicationBegin
    \/ \E ok \in BOOLEAN : HW_Attempt(ok)
    \/ Tick

SpecBurst == InitBurst /\ [][NextBurst]_vars

(***************************************************************************)
(* Properties                                                              *)
(***************************************************************************)

\* C1: when transitionToState(newState) succeeds, previousState is the value
\* currentState had immediately before the call, self-transitions included:
\* the step that completes the update under stateMutex stores the old
\* currentState in previousState and newState in currentState, and the rest
\* of the call leaves both alone.
C1_PreviousState ==
    [][ /\ (sm.pc # "entry" /\ sm'.pc = "entry") =>
              /\ systemStatus'.previousState = systemStatus.currentState
              /\ systemStatus'.previousState = sm'.oldState
              /\ systemStatus'.currentState = sm'.newState
        /\ (sm.pc = "entry" /\ sm'.pc = "receive") =>
              /\ sm'.result = "ok"
              /\ systemStatus'.previousState = systemStatus.previousState
              /\ systemStatus'.currentState = systemStatus.currentState
      ]_vars

\* a self-transition Recording -> Recording has returned successfully
C1_Witness ==
    /\ sm.pc = "receive"
    /\ sm.result = "ok"
    /\ sm.oldState = STATE_RECORDING
    /\ systemStatus.currentState = STATE_RECORDING
    /\ systemStatus.previousState = STATE_RECORDING

\* C2: transitionToState(s) with s >= STATE_MAX returns false and changes
\* nothing: the shared status (currentState, previousState, stateEnterTime,
\* stateTimeoutMs and the fields the exit and entry actions write), the UI
\* queue, the timers and the lock are as they were.
C2_OutOfRangeRejected ==
    [][ (sm.pc = "call" /\ sm.newState >= STATE_MAX /\ sm'.pc # "call") =>
            /\ sm'.pc = "receive"
            /\ sm'.result = "rejected"
            /\ UNCHANGED <<systemStatus, uiRenderQueue, timers, stateMutex>>
      ]_vars

\* a call with STATE_MAX was rejected in Recording, some time after Recording
\* was entered
C2_Witness ==
    /\ sm.pc = "receive"
    /\ sm.result = "rejected"
    /\ sm.newState = STATE_MAX
    /\ systemStatus.currentState = STATE_RECORDING
    /\ systemStatus.stateEnterTime < now
    /\ timers.stateTimeout

\* C3: currentState changes only in the step of SystemManagerTask that
\* completes the update of transitionToState; no step of the button, BLE,
\* hardware or UI tasks or of a timer or BLE callback changes it.
C3_OnlyControllerWrites ==
    [][ systemStatus'.currentState # systemStatus.currentState =>
            /\ sm.pc \in {"boot", "receive", "exitBlocked"}
            /\ sm'.pc = "entry"
            /\ systemStatus'.currentState = sm'.newState
      ]_vars

\* the Controller has entered Uploading while HardwareTask is in the retry
\* loop of an indication and the app has used its write
C3_Witness ==
    /\ systemStatus.currentState = STATE_UPLOADING
    /\ sm.pc = "receive"
    /\ hw.pc = "attempt"
    /\ env.writes = 0

\* C4: for a button press HardwareTask sends the system event before it
\* starts the burst (no burst when the event could not be queued), a call of
\* sendBLEButtonIndication that finds currentState different from the target
\* makes no attempt, and no attempt is made before the Controller has made
\* the target the current state.
C4_EventBeforeIndication ==
    [][ /\ (hw.pc = "idle" /\ hw'.pc # "idle") =>
              /\ hw'.pc = "delay"
              /\ Len(systemEventQueue) < MaxSystemEvents
              /\ systemEventQueue' =
                    Append(systemEventQueue,
                           [event |-> IF Head(buttonEventQueue).isLongPress
                                      THEN "EVENT_BUTTON_LONG_PRESS"
                                      ELSE "EVENT_BUTTON_SHORT_PRESS",
                            targetState |-> hw'.target])
        /\ (hw.pc = "call" /\ hw' # hw /\ systemStatus.currentState # hw.target) =>
              hw'.pc # "attempt"
        /\ (hw.pc = "attempt" /\ hw' # hw) => tx.applied
      ]_vars

\* the second attempt of an indication for Unlock, requested by a long press
\* in Login and applied by the Controller
C4_Witness ==
    /\ hw.pc = "attempt"
    /\ hw.retry = 1
    /\ hw.target = STATE_UNLOCK
    /\ tx.applied
    /\ systemStatus.currentState = STATE_UNLOCK
    /\ systemStatus.previousState = STATE_LOGIN

\* C5: sendBLEButtonIndication(s) transmits nothing and leaves the health
\* alone when currentState # s at its verification, and every attempt of its
\* retry loop is made while currentState = s.
C5_NoStaleIndication ==
    [][ /\ (hw.pc = "call" /\ hw' # hw /\ systemStatus.currentState # hw.target) =>
              (hw'.pc # "attempt" /\ bleHealth' = bleHealth)
        /\ (hw.pc = "attempt" /\ hw' # hw) => systemStatus.currentState = hw.target
      ]_vars

\* C6: an app command for the state s of a burst that BLEManagerTask handles
\* less than 180 ms after the start of the burst produces no system event;
\* every other recognised command is forwarded as an app-command event
\* (when systemEventQueue has room for it).
C6_SuppressionWindow ==
    [][ (bleCommandQueue # <<>> /\ bleCommandQueue' = Tail(bleCommandQueue)
         /\ ParseCommand(Head(bleCommandQueue).command) # STATE_MAX) =>
            LET s == ParseCommand(Head(bleCommandQueue).command)
            IN IF tx.burstState = s /\ now < tx.burstStart + 180
               THEN systemEventQueue' = systemEventQueue
               ELSE Len(systemEventQueue) < MaxSystemEvents =>
                       systemEventQueue' =
                           Append(systemEventQueue,
                                  [event |-> "EVENT_APP_COMMAND", targetState |-> s])
      ]_vars

\* C7: when a call reports its result, a failure adds exactly 1 to
\* indicationFailureCount and makes connectionStable false iff the new count
\* exceeds 2 (it is left as it was otherwise); a success sets the count to 0
\* and connectionStable to true whatever they were.
C7_HealthUpdate ==
    [][ (env' = env /\ now' = now /\ sm' = sm /\ uiRenderQueue' = uiRenderQueue) =>
            IF hw'.indicationSent
            THEN /\ bleHealth'.indicationFailureCount = 0
                 /\ bleHealth'.connectionStable = TRUE
            ELSE /\ bleHealth'.indicationFailureCount =
                        bleHealth.indicationFailureCount + 1
                 /\ bleHealth'.connectionStable =
                        IF bleHealth.indicationFailureCount + 1 > 2 THEN FALSE
                        ELSE bleHealth.connectionStable
      ]_vars

\* the third failure in a row has been reported on a connection that is up,
\* some time after it was made, and the connection counts as unstable
C7_Witness ==
    /\ bleHealth.isConnected
    /\ ~hw.indicationSent
    /\ bleHealth.indicationFailureCount = 3
    /\ ~bleHealth.connectionStable
    /\ now > bleHealth.connectionTime

C9_LongPressBoundary ==
    [][ Len(buttonEventQueue') > Len(buttonEventQueue) =>
            LET buttonEvent == buttonEventQueue'[Len(buttonEventQueue')]
            IN /\ buttonEvent.duration = btn.millis - btn.pressStartTime
               /\ buttonEvent.isLongPress <=> buttonEvent.duration >= 2000
               /\ buttonEvent.pressed => buttonEvent.isLongPress
      ]_vars

\* a release after exactly 2000 ms is queued as a long press
C9_Witness ==
    /\ buttonEventQueue # <<>>
    /\ ~Head(buttonEventQueue).pressed
    /\ Head(buttonEventQueue).duration = 2000
    /\ Head(buttonEventQueue).isLongPress
    /\ btn.pressProcessed

\* the target state of each token, STATE_MAX for a token that is not a command
C10_Target ==
    (TokLogin :> STATE_LOGIN) @@ (TokLoginSuffixed :> STATE_LOGIN)
    @@ (TokUnlock :> STATE_UNLOCK) @@ (TokRecord :> STATE_RECORDING)
    @@ (TokUpload :> STATE_UPLOADING) @@ (TokLogout :> STATE_LOGO)
    @@ (TokSetup :> STATE_SETUP)
    @@ (TokLowerUnlock :> STATE_MAX) @@ (TokUnlockSuffixed :> STATE_MAX)
    @@ (TokLog :> STATE_MAX) @@ (TokUpperLogin :> STATE_MAX)
    @@ (TokEmpty :> STATE_MAX)

\* C10: BLEManagerTask turns a token into a request for the state the table
\* gives, case-sensitively ("Login" as a prefix, the others exactly): the only
\* event it queues for a token is the app-command event with that target, and
\* for a token the table does not know it queues nothing; handling a token
\* never changes the shared status.
C10_TokenMapping ==
    [][ (bleCommandQueue # <<>> /\ bleCommandQueue' = Tail(bleCommandQueue)) =>
            LET targetState == C10_Target[Head(bleCommandQueue).command]
            IN /\ systemStatus' = systemStatus
               /\ IF targetState = STATE_MAX
                  THEN systemEventQueue' = systemEventQueue
                  ELSE \/ systemEventQueue' = systemEventQueue
                       \/ systemEventQueue' =
                             Append(systemEventQueue,
                                    [event |-> "EVENT_APP_COMMAND",
                                     targetState |-> targetState])
      ]_vars

\* "Logout" was handled in Login: the request for Logo is in the event queue
C10_Witness ==
    /\ systemEventQueue = <<[event |-> "EVENT_APP_COMMAND", targetState |-> STATE_LOGO]>>
    /\ bleCommandQueue = <<>>
    /\ env.writes = 0
    /\ systemStatus.currentState = STATE_LOGIN

\* C11: the entry half of every successful transition leaves, as the newest
\* command of uiRenderQueue, LoadScreen(newState) with highPriority true and
\* forceRefresh true exactly for Unlock -> Recording, Recording -> Uploading
\* and Uploading -> Unlock; the app command for Recording applied in Unlock
\* makes Recording the current state with Unlock as the state that was left.
C11_LoadScreenOnTransition ==
    [][ /\ (sm.pc = "entry" /\ sm'.pc = "receive") =>
              /\ sm'.result = "ok"
              /\ systemStatus.currentState = sm.newState
              /\ uiRenderQueue' # <<>>
              /\ uiRenderQueue'[Len(uiRenderQueue')] =
                    [command |-> "UI_CMD_LOAD_SCREEN",
                     state |-> sm.newState,
                     forceRefresh |->
                        (<<sm.oldState, sm.newState>> \in
                            {<<STATE_UNLOCK, STATE_RECORDING>>,
                             <<STATE_RECORDING, STATE_UPLOADING>>,
                             <<STATE_UPLOADING, STATE_UNLOCK>>}),
                     highPriority |-> TRUE]
        /\ (/\ sm.pc = "receive"
            /\ systemEventQueue # <<>>
            /\ systemEventQueue' = Tail(systemEventQueue)
            /\ Head(systemEventQueue) =
                  [event |-> "EVENT_APP_COMMAND", targetState |-> STATE_RECORDING]
            /\ systemStatus.currentState = STATE_UNLOCK) =>
              /\ sm'.pc = "entry"
              /\ sm'.oldState = STATE_UNLOCK
              /\ sm'.newState = STATE_RECORDING
              /\ systemStatus'.currentState = STATE_RECORDING
      ]_vars

\* "Record" was written in Unlock (reached by the long press in Login) and
\* the transition has returned: the forced LoadScreen(Recording) is queued
C11_Witness ==
    /\ sm.pc = "receive"
    /\ sm.result = "ok"
    /\ sm.oldState = STATE_UNLOCK
    /\ sm.newState = STATE_RECORDING
    /\ env.writes = 0
    /\ tx.burstState = STATE_UNLOCK
    /\ uiRenderQueue = <<[command |-> "UI_CMD_LOAD_SCREEN", state |-> STATE_RECORDING,
                          forceRefresh |-> TRUE, highPriority |-> TRUE]>>

\* the timeout budget of each state in milliseconds, 0 for a state without one
C12_Budget ==
    [s \in 0 .. STATE_MAX |->
        CASE s \in {STATE_SETUP, STATE_LOGIN} -> 180000
          [] s = STATE_UNLOCK -> 120000
          [] s \in {STATE_RECORDING, STATE_UPLOADING} -> 240000
          [] s = STATE_ERROR -> 30000
          [] OTHER -> 0]

MaxClockMs == 240000

\* stateTimeoutTimer expires while the Controller waits: the timer service
\* calls stateTimeoutCallback one period after the timer was reset
stateTimeoutTimerExpires ==
    /\ sm.pc = "receive"
    /\ systemEventQueue = <<>>
    /\ timers.stateTimeout
    /\ now' = systemStatus.stateEnterTime + timers.statePeriod
    /\ timers' = [timers EXCEPT !.stateTimeout = FALSE]
    /\ systemEventQueue' = xQueueSend(systemEventQueue,
                                      SysEvent("EVENT_TIMEOUT", STATE_LOGO),
                                      MaxSystemEvents)
    /\ timeoutFor' = IF Len(systemEventQueue) < MaxSystemEvents
                     THEN TimerArmedFor ELSE timeoutFor
    /\ UNCHANGED <<displayMutex, wd, btn, env, systemStatus, bleHealth, systemEvents, uiRenderQueue,
                   bleCommandQueue, buttonEventQueue, stateMutex, sm, hw, ui, tx>>

RequestTransition(newState) ==
    /\ now + getStateTimeout(STATE_RECORDING) <= MaxClockMs
    /\ CallTransition(newState)

SystemManagerStep ==
    SM_Boot \/ SM_Receive \/ SM_Transition \/ SM_ExitUnblocked \/ SM_Entry

NextTimeout ==
    \/ SystemManagerStep
    \/ \E newState \in TransitionArgs : RequestTransition(newState)
    \/ UIManagerReceive
    \/ stateTimeoutTimerExpires

\* the Controller runs whenever it can, and a timer that is active expires
SpecTimeout ==
    /\ Init
    /\ [][NextTimeout]_vars
    /\ WF_vars(SystemManagerStep)
    /\ WF_vars(stateTimeoutTimerExpires)

\* the states with a timeout and their budgets in milliseconds
C13_Budget ==
    (STATE_SETUP :> 180000) @@ (STATE_LOGIN :> 180000) @@ (STATE_UNLOCK :> 120000)
    @@ (STATE_RECORDING :> 240000) @@ (STATE_UPLOADING :> 240000)
    @@ (STATE_ERROR :> 30000)

\* C13: once the Controller waits in Setup, Login, Unlock, Recording,
\* Uploading or Error, then unless another transition is requested the
\* system comes to rest in Logo, left from that state, with the state
\* timeout stopped; and the expiry of the timer comes one budget after the
\* state was entered and queues exactly the Timeout event with target Logo.
C13_TimeoutReturnsToLogo ==
    /\ [][ (sm.pc = "receive" /\ sm'.pc = "receive"
            /\ timers.stateTimeout /\ ~timers'.stateTimeout) =>
              /\ systemStatus.currentState \in DOMAIN C13_Budget
              /\ now' = systemStatus.stateEnterTime
                            + C13_Budget[systemStatus.currentState]
              /\ systemEventQueue = <<>>
              /\ systemEventQueue' =
                    <<[event |-> "EVENT_TIMEOUT", targetState |-> STATE_LOGO]>>
         ]_vars
    /\ \A s \in DOMAIN C13_Budget :
          (sm.pc = "receive" /\ systemEventQueue = <<>>
           /\ systemStatus.currentState = s)
          ~> \/ sm.pc = "call"
             \/ /\ sm.pc = "receive"
                /\ systemEventQueue = <<>>
                /\ systemStatus.currentState = STATE_LOGO
                /\ systemStatus.previousState = s
                /\ ~timers.stateTimeout

\* Uploading has timed out after 240 s and the system rests in Logo
C13_Witness ==
    /\ sm.pc = "receive"
    /\ sm.result = "ok"
    /\ systemEventQueue = <<>>
    /\ systemStatus.currentState = STATE_LOGO
    /\ systemStatus.previousState = STATE_UPLOADING
    /\ systemStatus.stateEnterTime = 240000
    /\ ~timers.stateTimeout

(***************************************************************************)
(* UIManagerTask under every LoadScreen command: a caller of               *)
(* sendUICommandEnhanced queues LoadScreen with any state and any flags    *)
(* while the Controller serves transition requests.                        *)
(***************************************************************************)
\* the states LoadScreen commands are sent for in SpecUI
ScreenStates == {STATE_LOGO, STATE_RECORDING}

SendLoadScreen(state, forceRefresh, highPriority) ==
    /\ uiRenderQueue' = sendUICommandEnhanced(uiRenderQueue, "UI_CMD_LOAD_SCREEN",
                                              state, forceRefresh, highPriority)
    /\ UNCHANGED <<timeoutFor, displayMutex, wd, btn, env, now, systemStatus, bleHealth, systemEvents, systemEventQueue,
                   bleCommandQueue, buttonEventQueue, stateMutex, timers, sm, hw, ui, tx>>

\* UIManagerTask, lines 1085-1109: the periodic check at the end of a pass of
\* its loop.  Nothing is compared when stateMutex cannot be taken within
\* 50 ms; the time of the check is recorded either way.
UIManagerSyncCheck ==
    /\ now - ui.lastSyncCheck >= pdMS_TO_TICKS(UI_SYNC_MS)
    /\ ui' = [ui EXCEPT !.lastSyncCheck = now]
    /\ LET actualState == systemStatus.currentState
           uiState == systemStatus.lastUIState
           needsSync == /\ stateMutex = "free"
                        /\ (actualState # uiState \/ systemStatus.forceUIRefresh)
       IN uiRenderQueue' =
              IF needsSync
              THEN sendUICommandEnhanced(uiRenderQueue, "UI_CMD_LOAD_SCREEN",
                                         actualState, TRUE, TRUE)
              ELSE uiRenderQueue
    /\ UNCHANGED <<timeoutFor, displayMutex, wd, btn, env, now, systemStatus, bleHealth, systemEvents, systemEventQueue,
                   bleCommandQueue, buttonEventQueue, stateMutex, timers, sm, hw, tx>>

NextUI ==
    \/ SM_Boot
    \/ SM_Transition
    \/ SM_ExitUnblocked
    \/ SM_Entry
    \/ UIManagerSyncCheck
    \/ Tick
    \/ \E newState \in ScreenStates : CallTransition(newState)
    \/ \E state \in ScreenStates, forceRefresh \in BOOLEAN, highPriority \in BOOLEAN :
          SendLoadScreen(state, forceRefresh, highPriority)
    \/ UIManagerReceive

SpecUI == Init /\ [][NextUI]_vars

C15_SyncCheckReconciles ==
    [][ (ui'.lastSyncCheck # ui.lastSyncCheck
         /\ systemStatus.currentState # systemStatus.lastUIState) =>
            /\ uiRenderQueue' # <<>>
            /\ uiRenderQueue'[Len(uiRenderQueue')] =
                  [command |-> "UI_CMD_LOAD_SCREEN",
                   state |-> systemStatus.currentState,
                   forceRefresh |-> TRUE, highPriority |-> TRUE]
      ]_vars


(***************************************************************************)
(* WatchdogTask, systemWatchdogCallback and esp_restart()                  *)
(***************************************************************************)
\* uptime is followed up to MaxUptimeMs
MaxUptimeMs == 36000
\* the tick counter may run on by MaxSkewTicks while a task is between two reads
MaxSkewTicks == 1
\* errorCount is followed up to MaxErrors
MaxErrors == 11

\* (currentTime - lastActivity) > limit on TickType_t, a 32-bit unsigned
\* counter: a lastActivity ahead of currentTime wraps to
\* 2^32 - (lastActivity - currentTime)
TickAgeExceeds(currentTime, lastActivity, limit) ==
    IF currentTime >= lastActivity
    THEN currentTime - lastActivity > limit
    ELSE ((lastActivity - currentTime) + limit) \div 65536 < 65536

\* the tick counter moves on: by a whole watchdog period while WatchdogTask
\* sleeps, or by single ticks while it is between reading the counter and
\* reading the status
ClockAdvance(ms) ==
    /\ now + ms <= MaxUptimeMs
    /\ IF ms < WATCHDOG_PERIOD_MS
       THEN wd.pc = "check" /\ now % WATCHDOG_PERIOD_MS < MaxSkewTicks
       ELSE wd.pc = "sample" /\ now < wd.wake
    /\ now' = now + ms
    /\ UNCHANGED <<timeoutFor, displayMutex, wd, btn, env, systemStatus, bleHealth, systemEvents, systemEventQueue,
                   uiRenderQueue, bleCommandQueue, buttonEventQueue, stateMutex,
                   timers, sm, hw, ui, tx>>

\* esp_restart(): the chip reboots, every static is initialised again and
\* setup() runs; what the user and the app have already done stays done
esp_restart ==
    /\ btn' = InitBtn
    /\ now' = 0
    /\ systemStatus' = InitStatus
    /\ bleHealth' = InitHealth
    /\ systemEvents' = {}
    /\ systemEventQueue' = <<>>
    /\ uiRenderQueue' = <<>>
    /\ bleCommandQueue' = <<>>
    /\ buttonEventQueue' = <<>>
    /\ stateMutex' = "free"
    /\ displayMutex' = "free"
    /\ timers' = InitTimers
    /\ sm' = InitSm
    /\ hw' = InitHw
    /\ ui' = InitUi
    /\ wd' = InitWd
    /\ tx' = InitTx
    /\ timeoutFor' = STATE_MAX
    /\ UNCHANGED env

\* WatchdogTask, line 864: the pass begins by reading the tick counter
WatchdogSample ==
    /\ wd.pc = "sample"
    /\ now >= wd.wake
    /\ wd' = [wd EXCEPT !.pc = "check", !.currentTime = now]
    /\ UNCHANGED <<timeoutFor, displayMutex, btn, env, now, systemStatus, bleHealth, systemEvents, systemEventQueue,
                   uiRenderQueue, bleCommandQueue, buttonEventQueue, stateMutex,
                   timers, sm, hw, ui, tx>>

\* WatchdogTask, lines 865-896: the status is read under stateMutex (the
\* locals stay 0 when the lock is not obtained), the two checks restart the
\* chip, otherwise the task sleeps for 5 s
WatchdogCheck ==
    /\ wd.pc = "check"
    /\ LET taken == stateMutex = "free"
           lastActivity == IF taken THEN systemStatus.lastActivityTime ELSE 0
           errorCount == IF taken THEN systemStatus.errorCount ELSE 0
       IN IF \/ TickAgeExceeds(wd.currentTime, lastActivity,
                               pdMS_TO_TICKS(SYSTEM_WATCHDOG_MS))
             \/ errorCount > WATCHDOG_ERROR_LIMIT
          THEN esp_restart
          ELSE /\ wd' = [wd EXCEPT !.pc = "sample",
                                   !.wake = now + pdMS_TO_TICKS(WATCHDOG_PERIOD_MS)]
               /\ UNCHANGED <<timeoutFor, displayMutex, btn, env, now, systemStatus, bleHealth, systemEvents,
                              systemEventQueue, uiRenderQueue, bleCommandQueue,
                              buttonEventQueue, stateMutex, timers, sm, hw, ui, tx>>

\* systemWatchdogCallback: the periodic 30 s timer refreshes lastActivityTime
\* when stateMutex is free at that instant
systemWatchdogCallback ==
    /\ now >= wd.timerDue
    /\ wd' = [wd EXCEPT !.timerDue = wd.timerDue + pdMS_TO_TICKS(SYSTEM_WATCHDOG_MS)]
    /\ systemStatus' = IF stateMutex = "free"
                       THEN [systemStatus EXCEPT !.lastActivityTime = now]
                       ELSE systemStatus
    /\ UNCHANGED <<timeoutFor, displayMutex, btn, env, now, bleHealth, systemEvents, systemEventQueue,
                   uiRenderQueue, bleCommandQueue, buttonEventQueue, stateMutex,
                   timers, sm, hw, ui, tx>>

\* handleSystemError: errorCount is counted up under stateMutex; a critical
\* error also queues EVENT_ERROR for STATE_ERROR
handleSystemError(critical) ==
    /\ systemStatus.errorCount < MaxErrors
    /\ tx.errorCalls < MaxErrors
    /\ systemStatus' = IF stateMutex = "free"
                       THEN [systemStatus EXCEPT !.errorCount = @ + 1]
                       ELSE systemStatus
    /\ systemEventQueue' = IF critical
                           THEN xQueueSend(systemEventQueue,
                                           SysEvent("EVENT_ERROR", STATE_ERROR),
                                           MaxSystemEvents)
                           ELSE systemEventQueue
    /\ tx' = [tx EXCEPT !.errorCalls = @ + 1]
    /\ UNCHANGED <<timeoutFor, displayMutex, wd, btn, env, now, bleHealth, systemEvents, uiRenderQueue,
                   bleCommandQueue, buttonEventQueue, stateMutex, timers, sm, hw, ui>>

\* the running system as the watchdog sees it: the Controller handling link
\* events, the non-critical errors reported by WatchdogTask (line 893) and
\* UIManagerTask (line 1081), the two watchdog parties and the clock
NextWatchdog ==
    \/ SM_Boot
    \/ SM_Receive
    \/ SM_Entry
    \/ onConnect
    \/ handleSystemError(FALSE)
    \/ systemWatchdogCallback
    \/ WatchdogSample
    \/ WatchdogCheck
    \/ \E ms \in {1, WATCHDOG_PERIOD_MS} : ClockAdvance(ms)

SpecWatchdog == Init /\ [][NextWatchdog]_vars

\* C16: a pass of WatchdogTask restarts the system exactly when the
\* lastActivityTime it samples is more than 30 s older than the tick count it
\* read, or errorCount is above 10; the restart puts every variable of the
\* firmware back to its initial value, so no restart happens without such a
\* condition.
C16_RestartOncePerCondition ==
    [][(wd.pc = "check" /\ wd'.pc = "sample") =>
          LET condition ==
                  \/ wd.currentTime - systemStatus.lastActivityTime
                         > pdMS_TO_TICKS(SYSTEM_WATCHDOG_MS)
                  \/ systemStatus.errorCount > WATCHDOG_ERROR_LIMIT
              restarted == sm'.pc = "boot" /\ wd'.pc = "sample" /\ wd'.wake = 0
          IN /\ restarted <=> condition
             /\ restarted =>
                    /\ now' = 0
                    /\ systemStatus' = InitStatus
                    /\ bleHealth' = InitHealth
                    /\ systemEventQueue' = <<>>
                    /\ uiRenderQueue' = <<>>
                    /\ timers' = InitTimers
                    /\ sm' = InitSm
                    /\ wd' = InitWd]_vars


(***************************************************************************)
(* The recording cycle Unlock -> Recording -> Uploading -> Unlock          *)
(***************************************************************************)
\* the next target of the cycle; Unlock is entered first from any other state
RoundTripTarget(state) ==
    CASE state = STATE_UNLOCK -> STATE_RECORDING
      [] state = STATE_RECORDING -> STATE_UPLOADING
      [] state = STATE_UPLOADING -> STATE_UNLOCK
      [] OTHER -> STATE_UNLOCK

RoundTripCall == CallTransition(RoundTripTarget(systemStatus.currentState))

NextRoundTrip ==
    \/ SM_Boot
    \/ RoundTripCall
    \/ SM_Transition
    \/ SM_ExitUnblocked
    \/ SM_Entry
    \/ UIManagerReceive
    \/ Tick

SpecRoundTrip == Init /\ [][NextRoundTrip]_vars

C18_NoLockAcrossSend ==
    [][/\ sm.pc = "exitBlocked" => stateMutex = "free"
       /\ (uiRenderQueue' # uiRenderQueue /\ uiRenderQueue' # <<>>) =>
              stateMutex = "free"]_vars


(***************************************************************************)
(* The three locks: who holds which                                        *)
(***************************************************************************)
\* UIManagerTask, line 1005: displayMutex is taken for the command received
UI_TakeDisplayMutex ==
    /\ uiRenderQueue # <<>>
    /\ displayMutex = "free"
    /\ displayMutex' = "ui"
    /\ UNCHANGED <<timeoutFor, wd, btn, env, now, systemStatus, bleHealth, systemEvents,
                   systemEventQueue, uiRenderQueue, bleCommandQueue, buttonEventQueue,
                   stateMutex, timers, sm, hw, ui, tx>>

\* UIManagerTask, lines 1014 and 1029: inside the LoadScreen case stateMutex
\* is taken for the status update
UI_TakeStateMutex ==
    /\ displayMutex = "ui"
    /\ Head(uiRenderQueue).command = "UI_CMD_LOAD_SCREEN"
    /\ stateMutex = "free"
    /\ stateMutex' = "ui"
    /\ UNCHANGED <<timeoutFor, displayMutex, wd, btn, env, now, systemStatus, bleHealth, systemEvents,
                   systemEventQueue, uiRenderQueue, bleCommandQueue, buttonEventQueue,
                   timers, sm, hw, ui, tx>>

\* A Display task that waits for stateMutex without a time limit while it
\* holds displayMutex
UI_GiveMutexes_Waits ==
    /\ displayMutex = "ui"
    /\ stateMutex \in {"ui", "free"}
    /\ UIManagerProcess(TRUE)
    /\ stateMutex' = "free"
    /\ displayMutex' = "free"
    /\ UNCHANGED <<timeoutFor, wd, btn, env, now, bleHealth, systemEvents, systemEventQueue,
                   bleCommandQueue, buttonEventQueue, timers, sm, hw, tx>>

\* UIManagerTask, lines 1015-1018, 1030-1031 and 1078: the status is updated
\* when stateMutex was obtained, and the locks are given back
UI_GiveMutexes ==
    /\ displayMutex = "ui"
    /\ UIManagerProcess(stateMutex \in {"ui", "free"})
    /\ stateMutex' = IF stateMutex = "ui" THEN "free" ELSE stateMutex
    /\ displayMutex' = "free"
    /\ UNCHANGED <<timeoutFor, wd, btn, env, now, bleHealth, systemEvents, systemEventQueue,
                   bleCommandQueue, buttonEventQueue, timers, sm, hw, tx>>

\* bleMutex is held by HardwareTask from line 1455 to line 1552, that is
\* while sendBLEButtonIndication is in its attempts
bleMutex == IF hw.pc = "attempt" THEN "hw" ELSE "free"

Tasks == {"sm", "ui", "hw"}

LocksHeld(task) ==
    {lock \in {"stateMutex", "displayMutex", "bleMutex"} :
        \/ lock = "stateMutex" /\ stateMutex = task
        \/ lock = "displayMutex" /\ displayMutex = task
        \/ lock = "bleMutex" /\ bleMutex = task}

NextLocks ==
    \/ SM_Boot
    \/ RoundTripCall
    \/ SM_Transition
    \/ SM_ExitUnblocked
    \/ SM_Entry
    \/ UI_TakeDisplayMutex
    \/ UI_TakeStateMutex
    \/ UI_GiveMutexes
    \/ Tick

SpecLocks == Init /\ [][NextLocks]_vars

\* C19: in every reachable state each task holds at most one of stateMutex,
\* displayMutex and bleMutex.
C19_AtMostOneLock == \A task \in Tasks : Cardinality(LocksHeld(task)) <= 1


\* C20: a Timeout event raised by the timer armed for a state X is ignored
\* when the Controller receives it in another state: no transition is begun
\* and currentState stays as it is.
C20_StaleTimeoutIgnored ==
    [][(/\ sm.pc = "receive"
        /\ systemEventQueue # <<>>
        /\ systemEventQueue' = Tail(systemEventQueue)
        /\ Head(systemEventQueue).event = "EVENT_TIMEOUT"
        /\ timeoutFor # systemStatus.currentState) =>
           /\ sm'.pc = "receive"
           /\ systemStatus'.currentState = systemStatus.currentState]_vars


\* C21: HardwareTask begins a burst only by taking a button event whose
\* target is Unlock, Recording or Uploading; the target stays the same for
\* the whole burst, every transmission is made for it, and a step in which
\* the Controller takes an event, the link comes or goes, the app writes or a
\* timer expires leaves HardwareTask where it is.
C21_IndicationOnlyFromButton ==
    [][LET Indicated == {STATE_UNLOCK, STATE_RECORDING, STATE_UPLOADING} IN
       /\ (hw.pc = "idle" /\ hw'.pc # "idle") =>
              /\ buttonEventQueue # <<>>
              /\ buttonEventQueue' = Tail(buttonEventQueue)
              /\ hw'.target \in Indicated
              /\ hw'.pc = "delay"
       /\ (hw.pc # "idle" /\ hw'.pc # "idle") => hw'.target = hw.target
       /\ (hw.pc # "attempt" /\ hw'.pc = "attempt") => hw.pc = "call"
       /\ hw.pc = "attempt" => hw.target \in Indicated
       /\ (\/ systemEventQueue # <<>> /\ systemEventQueue' = Tail(systemEventQueue)
           \/ bleCommandQueue' # bleCommandQueue
           \/ bleHealth'.isConnected # bleHealth.isConnected
           \/ timers' # timers) => hw' = hw
      ]_vars

\* an indication for Uploading is being transmitted: the button was held in
\* Recording and the Controller has moved to Uploading
C21_Witness ==
    /\ hw.pc = "attempt"
    /\ hw.target = STATE_UPLOADING
    /\ systemStatus.currentState = STATE_UPLOADING
    /\ systemStatus.previousState = STATE_RECORDING


(***************************************************************************)
(* The system event queue between its producers and the Controller         *)
(***************************************************************************)
\* systemEventQueue is followed up to MaxQueued events
MaxQueued == 2

\* one event of each producer, and one whose target is out of range
QueuedEvents ==
    {SysEvent("EVENT_BUTTON_LONG_PRESS", STATE_UNLOCK),
     SysEvent("EVENT_APP_COMMAND", STATE_RECORDING),
     SysEvent("EVENT_BLE_CONNECTED", STATE_LOGIN),
     SysEvent("EVENT_TIMEOUT", STATE_LOGO),
     SysEvent("EVENT_APP_COMMAND", STATE_MAX)}

\* a producer's xQueueSend(systemEventQueue, ...)
ProducerSend(event) ==
    /\ systemEventQueue' = xQueueSend(systemEventQueue, event, MaxQueued)
    /\ UNCHANGED <<timeoutFor, displayMutex, wd, btn, env, now, systemStatus, bleHealth,
                   systemEvents, uiRenderQueue, bleCommandQueue, buttonEventQueue,
                   stateMutex, timers, sm, hw, ui, tx>>

NextQueue ==
    \/ SM_Boot
    \/ SM_Receive
    \/ SM_ExitUnblocked
    \/ SM_Entry
    \/ UIManagerReceive
    \/ \E event \in QueuedEvents : ProducerSend(event)

SpecQueue == Init /\ [][NextQueue]_vars

RECURSIVE C22_LastInRange(_, _)
\* the target of the last event of the queue whose target is a state, or
\* otherwise when there is none
C22_LastInRange(queue, otherwise) ==
    IF queue = <<>> THEN otherwise
    ELSE LET target == queue[Len(queue)].targetState IN
         IF target >= 0 /\ target < STATE_MAX THEN target
         ELSE C22_LastInRange(SubSeq(queue, 1, Len(queue) - 1), otherwise)

\* the state the system is in once everything queued has been applied: the
\* target of the last queued event with a target in range, or the state the
\* Controller is in or is moving to
C22_Outcome ==
    C22_LastInRange(systemEventQueue,
                    CASE sm.pc = "boot" -> STATE_LOGO
                      [] sm.pc = "exitBlocked" -> sm.newState
                      [] OTHER -> systemStatus.currentState)

\* C22: a producer adds its event at the tail, the Controller takes the event
\* at the head, once, and begins the transition to its target (or rejects a
\* target out of range and stays); the state the system ends in after the
\* queue has drained is the target of the last event queued with a target in
\* range: it changes only when such an event is queued.
C22_ArrivalOrder ==
    [][/\ Len(systemEventQueue') > Len(systemEventQueue) =>
              /\ systemEventQueue' =
                     Append(systemEventQueue,
                            systemEventQueue'[Len(systemEventQueue')])
              /\ sm' = sm
              /\ LET target == systemEventQueue'[Len(systemEventQueue')].targetState
                 IN C22_Outcome' = IF target >= 0 /\ target < STATE_MAX
                                   THEN target ELSE C22_Outcome
       /\ Len(systemEventQueue') < Len(systemEventQueue) =>
              /\ systemEventQueue' = Tail(systemEventQueue)
              /\ sm.pc = "receive"
              /\ sm'.newState = Head(systemEventQueue).targetState
              /\ IF Head(systemEventQueue).targetState < STATE_MAX
                 THEN sm'.pc \in {"entry", "exitBlocked"}
                 ELSE /\ sm'.pc = "receive"
                      /\ sm'.result = "rejected"
                      /\ systemStatus'.currentState = systemStatus.currentState
       /\ Len(systemEventQueue') <= Len(systemEventQueue) =>
              C22_Outcome' = C22_Outcome
       /\ (sm'.pc = "receive" /\ systemEventQueue' = <<>>) =>
              systemStatus'.currentState = C22_Outcome'
      ]_vars

\* the long press for Unlock, queued in Login, is being applied while "Record"
\* from the app and a state timeout wait behind it in their order of arrival
C22_Witness ==
    /\ sm.pc = "entry"
    /\ sm.oldState = STATE_LOGIN
    /\ sm.newState = STATE_UNLOCK
    /\ systemStatus.currentState = STATE_UNLOCK
    /\ systemEventQueue = <<SysEvent("EVENT_APP_COMMAND", STATE_RECORDING),
                            SysEvent("EVENT_TIMEOUT", STATE_LOGO)>>


(***************************************************************************)
(* The burst with the clock followed through its delays                    *)
(***************************************************************************)
\* the time between two indicate() calls of a burst whose attempts succeed:
\* the confirmation delay and the retry delay inside a call, the
\* confirmation delay and the spacing between two calls
AttemptDelayMs(h) ==
    IF h.retry > 0 THEN pdMS_TO_TICKS(CONFIRMATION_DELAY_MS) + pdMS_TO_TICKS(RETRY_DELAY_MS)
    ELSE IF h.burst > 0 THEN pdMS_TO_TICKS(CONFIRMATION_DELAY_MS) + pdMS_TO_TICKS(BURST_SPACING_MS)
    ELSE 0

HW_AttemptTimed == HW_AttemptAfter(TRUE, AttemptDelayMs(hw))

NextAck ==
    \/ SM_Boot
    \/ SM_Receive
    \/ SM_ExitUnblocked
    \/ SM_Entry
    \/ UIManagerReceive
    \/ onConnect
    \/ \E command \in BurstCommands : onWrite(command)
    \/ BLEManagerTask
    \/ ButtonManagerSend
    \/ HW_Button
    \/ HW_BurstStart
    \/ HW_IndicationBegin
    \/ HW_AttemptTimed

SpecAck == InitBurst /\ [][NextAck]_vars

\* C23: while the burst for s is being transmitted with its window installed
\* and an indication of the current call has gone out, an app command for s
\* that BLEManagerTask handles with stateMutex free is dropped: no system
\* event is queued for it.
C23_WindowCoversBurst ==
    [][(/\ bleCommandQueue # <<>>
        /\ bleCommandQueue' = Tail(bleCommandQueue)
        /\ hw.pc = "attempt"
        /\ hw.retry > 0
        /\ ParseCommand(Head(bleCommandQueue).command) = hw.target
        /\ tx.burstState = hw.target
        /\ systemStatus.lastBurstState = hw.target
        /\ stateMutex = "free") =>
           systemEventQueue' = systemEventQueue]_vars


(***************************************************************************)
(* The Controller's events while UIManagerTask takes stateMutex            *)
(***************************************************************************)
NextLockTimeout ==
    \/ SM_Boot
    \/ SM_Receive
    \/ SM_ExitUnblocked
    \/ SM_Entry
    \/ UI_TakeDisplayMutex
    \/ UI_TakeStateMutex
    \/ UI_GiveMutexes
    \/ \E event \in QueuedEvents : ProducerSend(event)

SpecLockTimeout == Init /\ [][NextLockTimeout]_vars

\* C24: when the Controller takes an event while stateMutex is held by
\* another task, transitionToState returns false: the status, the timers and
\* the render queue are as before, the event has left the queue and the
\* Controller is back at its receive with no transition begun.
C24_LockTimeoutLosesRequest ==
    [][(/\ sm.pc = "receive"
        /\ systemEventQueue # <<>>
        /\ stateMutex # "free"
        /\ stateMutex' = stateMutex
        /\ Len(systemEventQueue') <= Len(systemEventQueue)) =>
           /\ systemEventQueue' = Tail(systemEventQueue)
           /\ sm'.pc = "receive"
           /\ sm'.result = "lockTimeout"
           /\ sm'.newState = Head(systemEventQueue).targetState
           /\ systemStatus' = systemStatus
           /\ timers' = timers
           /\ uiRenderQueue' = uiRenderQueue]_vars

\* the long-press request for Unlock was taken in Login while UIManagerTask
\* held stateMutex: it is gone and the state is still Login
C24_Witness ==
    /\ sm.pc = "receive"
    /\ sm.result = "lockTimeout"
    /\ sm.newState = STATE_UNLOCK
    /\ systemStatus.currentState = STATE_LOGIN
    /\ systemEventQueue = <<>>



\* C25: a pass of the retry loop that is not the last one of its call, made
\* before any pass of the call has succeeded, applies the health update for
\* its own outcome.
C25_HealthUpdatePerAttempt ==
    [][(/\ hw.pc = "attempt"
        /\ hw'.pc = "attempt"
        /\ hw'.retry = hw.retry + 1
        /\ ~hw.indicationSent) =>
           bleHealth' = updateBLEConnectionHealth(bleHealth, hw'.indicationSent)]_vars



\* C26: the Controller's steps never add to the system event queue and one
\* event leads to one call of transitionToState: taking an event removes it
\* and nothing else, the exit and entry actions leave the queue as it is and
\* keep the target of the call, and after the entry action the Controller is
\* back at its receive.
C26_NoChainedTransition ==
    [][/\ (sm.pc = "receive" /\ sm' # sm) =>
              /\ systemEventQueue # <<>>
              /\ systemEventQueue' = Tail(systemEventQueue)
              /\ sm'.newState = Head(systemEventQueue).targetState
       /\ (sm.pc = "exitBlocked" /\ sm' # sm) =>
              /\ systemEventQueue' = systemEventQueue
              /\ sm'.pc = "entry"
              /\ sm'.newState = sm.newState
       /\ (sm.pc = "entry" /\ sm' # sm) =>
              /\ systemEventQueue' = systemEventQueue
              /\ sm'.pc = "receive"
              /\ sm'.newState = sm.newState
              /\ systemStatus'.currentState = systemStatus.currentState]_vars

\* the transition from Recording to Logo is complete, exit and entry actions
\* included, and the system event queue is empty
C26_Witness ==
    /\ sm.pc = "receive"
    /\ sm.result = "ok"
    /\ sm.oldState = STATE_RECORDING
    /\ sm.newState = STATE_LOGO
    /\ systemStatus.currentState = STATE_LOGO
    /\ systemEventQueue = <<>>



\* C27: a pass of ButtonManagerTask queues at most one ButtonEvent, and only
\* when pressProcessed is clear, which it then sets: a hold event
\* (pressed, long, at least 2000 ms) while the input is LOW, or a release
\* event on the edge back to HIGH.  pressProcessed is cleared, and
\* pressStartTime set, only by a pass that confirms a press.
C27_OneEventPerPress ==
    [][btn' # btn =>
          /\ buttonEventQueue' # buttonEventQueue =>
                /\ ~btn.pressProcessed
                /\ btn'.pressProcessed
                /\ Len(buttonEventQueue') = Len(buttonEventQueue) + 1
                /\ SubSeq(buttonEventQueue', 1, Len(buttonEventQueue)) = buttonEventQueue
                /\ LET buttonEvent == buttonEventQueue'[Len(buttonEventQueue')] IN
                   IF buttonEvent.pressed
                   THEN /\ buttonEvent.isLongPress
                        /\ buttonEvent.duration >= LONG_PRESS_MS
                        /\ btn.lastButtonState = LOW
                        /\ btn'.lastButtonState = LOW
                   ELSE /\ btn.lastButtonState = LOW
                        /\ btn'.lastButtonState = HIGH
          /\ (~btn'.pressProcessed
              /\ (btn.pressProcessed \/ btn'.pressStartTime # btn.pressStartTime)) =>
                /\ btn.lastButtonState = HIGH
                /\ btn'.lastButtonState = LOW
                /\ btn'.pressStartTime = btn.millis
                /\ "BUTTON_PRESSED" \in systemEvents']_vars

\* the press was held until its hold event was queued and the button has
\* been released since: the hold event is the only one
C27_Witness ==
    /\ btn.lastButtonState = HIGH
    /\ btn.pressProcessed
    /\ "BUTTON_PRESSED" \in systemEvents
    /\ Len(buttonEventQueue) = 1
    /\ buttonEventQueue[1].pressed


\* C28: a pass of ButtonManagerTask made while no confirmed press is
\* outstanding (BUTTON_PRESSED is clear before and after it) queues no
\* ButtonEvent: the passes of an unconfirmed LOW reading and the ones that
\* follow it are such passes.
C28_GlitchNoEvent ==
    [][(/\ btn' # btn
        /\ "BUTTON_PRESSED" \notin systemEvents
        /\ "BUTTON_PRESSED" \notin systemEvents') =>
           buttonEventQueue' = buttonEventQueue]_vars



\* while the Controller is between two transitions, logoSwitchTimer is
\* active only in Logo and loginScreenTimer only in Login
C29_TimersFollowState ==
    sm.pc = "receive" =>
        /\ timers.logoSwitch => systemStatus.currentState = STATE_LOGO
        /\ timers.loginScreen => systemStatus.currentState = STATE_LOGIN

\* a step outside the Controller that toggles isLogoAlt is made by the
\* active logoSwitchTimer with stateMutex free and currentState Logo, and one
\* that changes isLoginFirstScreen clears it, by the active loginScreenTimer
\* with stateMutex free and currentState Login
C29_CallbacksCheckState ==
    sm' = sm =>
          /\ systemStatus'.isLogoAlt # systemStatus.isLogoAlt =>
                /\ timers.logoSwitch
                /\ stateMutex = "free"
                /\ systemStatus.currentState = STATE_LOGO
          /\ systemStatus'.isLoginFirstScreen # systemStatus.isLoginFirstScreen =>
                /\ timers.loginScreen
                /\ stateMutex = "free"
                /\ systemStatus.currentState = STATE_LOGIN
                /\ ~systemStatus'.isLoginFirstScreen

\* C29: in every state where no transition is in progress the logo timer is
\* active only in Logo and the login timer only in Login, and in every step
\* the callbacks change isLogoAlt and isLoginFirstScreen only in Logo,
\* respectively Login, checked with stateMutex taken.
C29_TimersAndCallbacks == []C29_TimersFollowState /\ [][C29_CallbacksCheckState]_vars

\* in Login, after loginScreenTimer has fired and switched to the second
\* screen: neither timer is active
C29_Witness ==
    /\ sm.pc = "receive"
    /\ systemStatus.currentState = STATE_LOGIN
    /\ ~systemStatus.isLoginFirstScreen
    /\ ~timers.loginScreen
    /\ ~timers.logoSwitch



\* C30: on a full uiRenderQueue a command sent without priority leaves the
\* queue as it is, and a command sent with priority leaves the queue holding
\* that command alone.  A sender's step that changes the full queue is
\* therefore a send with priority, by a task outside the Controller or by
\* the LoadScreen command that ends the Controller's entry step, where the
\* commands of the entry action, sent without priority, were dropped first.
C30_FullQueueSend ==
    [][Len(uiRenderQueue) >= MaxUICommands =>
          /\ (/\ sm' = sm
              /\ uiRenderQueue' # uiRenderQueue
              /\ uiRenderQueue' # Tail(uiRenderQueue)) =>
                 /\ Len(uiRenderQueue') = 1
                 /\ uiRenderQueue'[1].highPriority
                 /\ \A i \in 1..Len(uiRenderQueue) :
                        ~uiRenderQueue[i].highPriority => uiRenderQueue'[1] # uiRenderQueue[i]
          /\ (sm.pc = "entry" /\ sm'.pc = "receive") =>
                 uiRenderQueue' =
                     <<UIMsg("UI_CMD_LOAD_SCREEN", sm.newState,
                             isCriticalTransition(sm.oldState, sm.newState), TRUE)>>]_vars

\* the Controller has entered Recording from Logo while UIManagerTask still
\* shows Logo: of the commands sent on the way only the LoadScreen command
\* of the entry, sent with priority, is in the queue
C30_Witness ==
    /\ sm.pc = "receive"
    /\ sm.result = "ok"
    /\ sm.oldState = STATE_LOGO
    /\ sm.newState = STATE_RECORDING
    /\ ui.lastDisplayedState = STATE_LOGO
    /\ uiRenderQueue = <<UIMsg("UI_CMD_LOAD_SCREEN", STATE_RECORDING, FALSE, TRUE)>>



(***************************************************************************)
(* Errors reported while the Controller makes transitions                  *)
(***************************************************************************)
NextError ==
    \/ SM_Boot
    \/ SM_Receive
    \/ \E newState \in ScreenStates : CallTransition(newState)
    \/ SM_Transition
    \/ SM_ExitUnblocked
    \/ SM_Entry
    \/ UIManagerReceive
    \/ \E critical \in BOOLEAN : handleSystemError(critical)

SpecError == Init /\ [][NextError]_vars

\* C31: every call of handleSystemError has counted errorCount up by one:
\* errorCount is the number of calls made since the boot.
C31_ErrorCountPerCall == systemStatus.errorCount = tx.errorCalls



(***************************************************************************)
(* LVGLTask: the health check of the user interface                        *)
(***************************************************************************)
\* LVGLTask, lines 929-965.  Both takes of stateMutex (10 ms each) see the
\* lock as it is when the check begins.  Without the lock lastUIUpdate keeps
\* its initial value 0, and nothing is sent.
LVGLHealthCheck ==
    /\ now - ui.lastHealthCheck >= pdMS_TO_TICKS(UI_HEALTH_MS)
    /\ ui' = [ui EXCEPT !.lastHealthCheck = now]
    /\ LET currentTime == now
           taken == stateMutex = "free"
           lastUIUpdate == IF taken THEN systemStatus.lastUIUpdateTime ELSE 0
           freeze == currentTime - lastUIUpdate > pdMS_TO_TICKS(UI_FREEZE_MS)
       IN IF ~taken
          THEN UNCHANGED <<systemStatus, uiRenderQueue>>
          ELSE /\ systemStatus' = [systemStatus EXCEPT
                                       !.uiMissedUpdates = 0,
                                       !.forceUIRefresh = IF freeze THEN TRUE ELSE @]
               /\ uiRenderQueue' =
                      IF freeze
                      THEN sendUICommandEnhanced(uiRenderQueue, "UI_CMD_LOAD_SCREEN",
                                                 systemStatus.currentState, TRUE, TRUE)
                      ELSE uiRenderQueue
    /\ UNCHANGED <<timeoutFor, displayMutex, wd, btn, env, now, bleHealth, systemEvents,
                   systemEventQueue, bleCommandQueue, buttonEventQueue, stateMutex,
                   timers, sm, hw, tx>>

\* the tick counter moves on by one period of the health check
HealthClock ==
    /\ now + UI_HEALTH_MS <= MaxUptimeMs
    /\ now' = now + UI_HEALTH_MS
    /\ UNCHANGED <<timeoutFor, displayMutex, wd, btn, env, systemStatus, bleHealth, systemEvents,
                   systemEventQueue, uiRenderQueue, bleCommandQueue, buttonEventQueue,
                   stateMutex, timers, sm, hw, ui, tx>>

NextFreeze ==
    \/ SM_Boot
    \/ \E newState \in ScreenStates : CallTransition(newState)
    \/ SM_Transition
    \/ SM_ExitUnblocked
    \/ SM_Entry
    \/ UIManagerReceive
    \/ LVGLHealthCheck
    \/ HealthClock

SpecFreeze == Init /\ [][NextFreeze]_vars

\* C32: a health check made more than 10 s after the last render sets
\* forceUIRefresh and sends a forced LoadScreen command of high priority for
\* the current state; a check made within 10 s of the last render leaves the
\* render queue as it is.
C32_FreezeSync ==
    [][ui'.lastHealthCheck # ui.lastHealthCheck =>
          IF now - systemStatus.lastUIUpdateTime > pdMS_TO_TICKS(UI_FREEZE_MS)
          THEN /\ systemStatus'.forceUIRefresh
               /\ uiRenderQueue' =
                      sendUICommandEnhanced(uiRenderQueue, "UI_CMD_LOAD_SCREEN",
                                            systemStatus.currentState, TRUE, TRUE)
          ELSE uiRenderQueue' = uiRenderQueue]_vars



(***************************************************************************)
(* The link going down and coming up again while the button is used        *)
(***************************************************************************)
ReconnectLinks == 3
ReconnectPresses == 2

InitReconnect ==
    /\ btn = InitBtn
    /\ env = [links |-> ReconnectLinks, writes |-> 0, presses |-> ReconnectPresses]
    /\ now = 0
    /\ systemStatus = InitStatus
    /\ bleHealth = InitHealth
    /\ systemEvents = {}
    /\ systemEventQueue = <<>>
    /\ uiRenderQueue = <<>>
    /\ bleCommandQueue = <<>>
    /\ buttonEventQueue = <<>>
    /\ stateMutex = "free"
    /\ displayMutex = "free"
    /\ timers = InitTimers
    /\ sm = InitSm
    /\ hw = InitHw
    /\ ui = InitUi
    /\ wd = InitWd
    /\ tx = InitTx
    /\ timeoutFor = STATE_MAX

NextReconnect ==
    \/ SM_Boot
    \/ SM_Receive
    \/ SM_ExitUnblocked
    \/ SM_Entry
    \/ UIManagerReceive
    \/ onConnect
    \/ onDisconnect
    \/ ButtonManagerSend
    \/ HW_Button
    \/ HW_BurstStart
    \/ HW_IndicationBegin
    \/ \E ok \in BOOLEAN : HW_Attempt(ok)
    \/ Tick

SpecReconnect == InitReconnect /\ [][NextReconnect]_vars

\* isBLEConnectionStable is false without a client and on a link younger
\* than 2 s
C33_YoungOrDisconnected ==
    (\/ ~isBLEConnected(systemEvents)
     \/ now - bleHealth.connectionTime <= pdMS_TO_TICKS(BLE_STABLE_AGE_MS)) =>
        ~isBLEConnectionStable(systemEvents, bleHealth, now)

\* the first call that begins its attempts on a link has the budget of 5
C33_FirstCallBudget ==
    (/\ hw.pc = "call"
     /\ hw'.pc = "attempt"
     /\ tx.firstCallPending) =>
        hw'.maxRetries = BLE_RETRY_UNSTABLE

\* C33: the first call of sendBLEButtonIndication that begins its attempts
\* after a connect has the extended budget of 5 attempts, and
\* isBLEConnectionStable is false on a link younger than 2 s and without a
\* client.
C33_FirstCallExtended == []C33_YoungOrDisconnected /\ [][C33_FirstCallBudget]_vars



(***************************************************************************)
(* HardwareTask preempted between reading the state and sending the event  *)
(***************************************************************************)
\* HardwareTask, lines 734-803: the button event is taken and currentState is
\* read under stateMutex; the target is worked out from that reading
HW_Evaluate ==
    /\ ~SystemManagerRunnable
    /\ hw.pc = "idle"
    /\ buttonEventQueue # <<>>
    /\ buttonEventQueue' = Tail(buttonEventQueue)
    /\ IF stateMutex # "free"
       THEN UNCHANGED <<systemStatus, hw>>
       ELSE LET buttonEvent == Head(buttonEventQueue)
                currentState == systemStatus.currentState
                targetState == ButtonTarget(currentState, buttonEvent.isLongPress)
            IN /\ systemStatus' =
                    IF ~buttonEvent.isLongPress /\ currentState = STATE_RECORDING
                    THEN [systemStatus EXCEPT !.isRecordingHoldToUpload = TRUE]
                    ELSE systemStatus
               /\ hw' = IF targetState # STATE_MAX
                        THEN [hw EXCEPT !.pc = "send", !.target = targetState]
                        ELSE hw
    /\ UNCHANGED <<timeoutFor, displayMutex, wd, btn, env, now, bleHealth, systemEvents,
                   systemEventQueue, uiRenderQueue, bleCommandQueue, stateMutex,
                   timers, sm, ui, tx>>

\* HardwareTask, lines 806-830: the event is sent with the target worked out
\* before; a long press asks for Unlock or Uploading, a short one for
\* Recording
HW_Send ==
    /\ ~SystemManagerRunnable
    /\ hw.pc = "send"
    /\ LET event == IF hw.target = STATE_RECORDING THEN "EVENT_BUTTON_SHORT_PRESS"
                                                   ELSE "EVENT_BUTTON_LONG_PRESS"
           passed == Len(systemEventQueue) < MaxSystemEvents
       IN /\ systemEventQueue' = xQueueSend(systemEventQueue, SysEvent(event, hw.target),
                                            MaxSystemEvents)
          /\ hw' = IF passed THEN [hw EXCEPT !.pc = "delay"]
                   ELSE [hw EXCEPT !.pc = "idle", !.target = STATE_MAX]
          /\ tx' = IF passed
                   THEN [tx EXCEPT !.applied = (systemStatus.currentState = hw.target)]
                   ELSE tx
    /\ UNCHANGED <<timeoutFor, displayMutex, wd, btn, env, now, systemStatus, bleHealth,
                   systemEvents, uiRenderQueue, bleCommandQueue, buttonEventQueue,
                   stateMutex, timers, sm, ui>>

NextPreempt ==
    \/ SM_Boot
    \/ SM_Receive
    \/ SM_ExitUnblocked
    \/ SM_Entry
    \/ UIManagerReceive
    \/ onConnect
    \/ onDisconnect
    \/ ButtonManagerSend
    \/ HW_Evaluate
    \/ HW_Send
    \/ HW_BurstStart
    \/ HW_IndicationBegin
    \/ \E ok \in BOOLEAN : HW_Attempt(ok)

SpecPreempt == InitReconnect /\ [][NextPreempt]_vars

\* C34: the Controller takes a long-press request for Unlock only in Login,
\* a long-press request for Uploading only in Recording, and a short-press
\* request for Recording only in Unlock or in Recording, the states in which
\* HardwareTask works out these targets.
C34_AppliedWhereEvaluated ==
    [][(/\ sm.pc = "receive"
        /\ systemEventQueue # <<>>
        /\ systemEventQueue' = Tail(systemEventQueue)
        /\ Head(systemEventQueue).event \in {"EVENT_BUTTON_LONG_PRESS",
                                            "EVENT_BUTTON_SHORT_PRESS"}) =>
           LET targetState == Head(systemEventQueue).targetState
               currentState == systemStatus.currentState
           IN /\ targetState = STATE_UNLOCK => currentState = STATE_LOGIN
              /\ targetState = STATE_UPLOADING => currentState = STATE_RECORDING
              /\ targetState = STATE_RECORDING =>
                     currentState \in {STATE_UNLOCK, STATE_RECORDING}]_vars



(***************************************************************************)
(* WatchdogTask while the Controller makes transitions                     *)
(***************************************************************************)
NextWatchdogBusy ==
    \/ SM_Boot
    \/ \E newState \in ScreenStates : CallTransition(newState)
    \/ SM_Transition
    \/ SM_ExitUnblocked
    \/ SM_Entry
    \/ UIManagerReceive
    \/ systemWatchdogCallback
    \/ WatchdogSample
    \/ WatchdogCheck
    \/ ClockAdvance(WATCHDOG_PERIOD_MS)

SpecWatchdogBusy == Init /\ [][NextWatchdogBusy]_vars

\* C35: a pass of WatchdogTask restarts the chip only when lastActivityTime
\* in the status is more than 30 s old or errorCount in the status is above
\* 10, whether the pass obtained stateMutex or not.
C35_RestartOnRealCondition ==
    [][(wd.pc = "check" /\ wd'.pc = "sample") =>
          LET restarted == sm'.pc = "boot" /\ wd'.wake = 0
          IN restarted =>
                \/ now - systemStatus.lastActivityTime
                       > pdMS_TO_TICKS(SYSTEM_WATCHDOG_MS)
                \/ systemStatus.errorCount > WATCHDOG_ERROR_LIMIT]_vars



\* C36: a pass of WatchdogTask made while the connect event has been waiting
\* in systemEventQueue for more than 30 s plus one sampling period, the
\* Controller being at its receive, restarts the chip.
C36_StallDetected ==
    [][(/\ wd.pc = "check"
        /\ wd'.pc = "sample"
        /\ sm.pc = "receive"
        /\ systemEventQueue = <<SysEvent("EVENT_BLE_CONNECTED", STATE_LOGIN)>>
        /\ wd.currentTime - bleHealth.connectionTime
               > pdMS_TO_TICKS(SYSTEM_WATCHDOG_MS + WATCHDOG_PERIOD_MS)) =>
           /\ sm'.pc = "boot"
           /\ wd'.wake = 0
           /\ systemEventQueue' = <<>>]_vars



\* The application and one press: the client writes Record and Unlock, the
\* user presses once.
HoldWrites == 3
HoldPresses == 1

InitHold ==
    /\ btn = InitBtn
    /\ env = [links |-> 1, writes |-> HoldWrites, presses |-> HoldPresses]
    /\ now = 0
    /\ systemStatus = InitStatus
    /\ bleHealth = InitHealth
    /\ systemEvents = {}
    /\ systemEventQueue = <<>>
    /\ uiRenderQueue = <<>>
    /\ bleCommandQueue = <<>>
    /\ buttonEventQueue = <<>>
    /\ stateMutex = "free"
    /\ displayMutex = "free"
    /\ timers = InitTimers
    /\ sm = InitSm
    /\ hw = InitHw
    /\ ui = InitUi
    /\ wd = InitWd
    /\ tx = InitTx
    /\ timeoutFor = STATE_MAX

NextHold ==
    \/ SM_Boot
    \/ SM_Receive
    \/ SM_ExitUnblocked
    \/ SM_Entry
    \/ UIManagerReceive
    \/ onConnect
    \/ \E command \in {TokRecord, TokUnlock} : onWrite(command)
    \/ BLEManagerTask
    \/ ButtonManagerSend
    \/ HW_Button
    \/ HW_BurstStart
    \/ HW_IndicationBegin
    \/ \E ok \in BOOLEAN : HW_Attempt(ok)

SpecHold == InitHold /\ [][NextHold]_vars


\* C37: a step that changes currentState from another state to Recording
\* leaves isRecordingHoldToUpload false.
C37_RecordingEntryClearsHold ==
    [][(/\ systemStatus.currentState # STATE_RECORDING
        /\ systemStatus'.currentState = STATE_RECORDING) =>
           ~systemStatus'.isRecordingHoldToUpload]_vars



\* The three users of the locks together: the Controller's transitions, the
\* Display task's command handling in its lock steps, and the Button
\* handler's indications under bleMutex.
NextDeadlock ==
    \/ SM_Boot
    \/ RoundTripCall
    \/ SM_Receive
    \/ SM_Transition
    \/ SM_ExitUnblocked
    \/ SM_Entry
    \/ UI_TakeDisplayMutex
    \/ UI_TakeStateMutex
    \/ UI_GiveMutexes
    \/ ButtonManagerSend
    \/ HW_Button
    \/ HW_BurstStart
    \/ HW_IndicationBegin
    \/ \E ok \in BOOLEAN : HW_Attempt(ok)

SpecDeadlock == Init /\ [][NextDeadlock]_vars

C38_HolderProceeds ==
    /\ stateMutex = "sm" => ENABLED SM_ExitUnblocked
    /\ (stateMutex = "ui" \/ displayMutex = "ui") => ENABLED UI_GiveMutexes
    /\ bleMutex = "hw" =>
           \/ ENABLED (\E ok \in BOOLEAN : HW_Attempt(ok))
           \/ SystemManagerRunnable
    /\ SystemManagerRunnable => ENABLED (SM_Boot \/ SM_Receive \/ SM_Entry)
    /\ \A task \in Tasks : LocksHeld(task) # {"displayMutex", "bleMutex"}
    /\ \A task \in Tasks : Cardinality(LocksHeld(task)) < 3

C38_OuterLockFirst ==
    \A task \in Tasks :
        /\ (displayMutex # task /\ displayMutex' = task) => stateMutex # task
        /\ (bleMutex # task /\ bleMutex' = task) => stateMutex # task

RunningStates == {STATE_LOGO, STATE_SETUP, STATE_LOGIN, STATE_UNLOCK,
                  STATE_RECORDING, STATE_UPLOADING, STATE_ERROR}

\* C39: currentState is always below STATE_MAX; once SystemManagerTask has
\* made its initial transition it is one of Logo, Setup, Login, Unlock,
\* Recording, Uploading and Error; no event waiting in systemEventQueue and
\* no transition in progress asks for Startup or Shutdown.
C39_RunningStatesOnly ==
    /\ systemStatus.currentState < STATE_MAX
    /\ sm.pc # "boot" => systemStatus.currentState \in RunningStates
    /\ sm.pc # "boot" => sm.newState \notin {STATE_STARTUP, STATE_SHUTDOWN}
    /\ \A i \in 1..Len(systemEventQueue) :
          systemEventQueue[i].targetState \notin {STATE_STARTUP, STATE_SHUTDOWN}

C39_Witness ==
    /\ systemStatus.currentState = STATE_UPLOADING
    /\ systemStatus.previousState = STATE_RECORDING
    /\ systemEventQueue # <<>>
    /\ Head(systemEventQueue).targetState = STATE_LOGO



\* forceUISync, lines 1888-1899: with stateMutex the current state is read,
\* forceUIRefresh is set and a forced high-priority LoadScreen is sent;
\* without the lock nothing is done
forceUISync ==
    /\ stateMutex = "free"
    /\ systemStatus' = [systemStatus EXCEPT !.forceUIRefresh = TRUE]
    /\ uiRenderQueue' = sendUICommandEnhanced(uiRenderQueue, "UI_CMD_LOAD_SCREEN",
                                              systemStatus.currentState, TRUE, TRUE)
    /\ UNCHANGED <<timeoutFor, displayMutex, wd, btn, env, now, bleHealth, systemEvents,
                   systemEventQueue, bleCommandQueue, buttonEventQueue, stateMutex,
                   timers, sm, hw, ui, tx>>

\* The clock of the producers below, in steps of the health-check period
MaxScreenMs == 15000

ScreenClock ==
    /\ now + UI_HEALTH_MS <= MaxScreenMs
    /\ now' = now + UI_HEALTH_MS
    /\ UNCHANGED <<timeoutFor, displayMutex, wd, btn, env, systemStatus, bleHealth, systemEvents,
                   systemEventQueue, uiRenderQueue, bleCommandQueue, buttonEventQueue,
                   stateMutex, timers, sm, hw, ui, tx>>

\* Every producer of LoadScreen commands: the transitions caused by connects
\* and disconnects, the logo and login timers, the 2 s reconciliation, the
\* freeze check and forceUISync, with the Display task consuming.
NextLoadScreen ==
    \/ SM_Boot
    \/ SM_Receive
    \/ SM_Entry
    \/ onConnect
    \/ onDisconnect
    \/ loginScreenTimerCallback
    \/ logoSwitchTimerCallback
    \/ UIManagerSyncCheck
    \/ LVGLHealthCheck
    \/ forceUISync
    \/ UIManagerReceive
    \/ ScreenClock

SpecLoadScreen == Init /\ [][NextLoadScreen]_vars

\* C40: every LoadScreen command in uiRenderQueue has highPriority = TRUE,
\* and uiMissedUpdates is 0.
C40_LoadScreenHighPriority ==
    /\ \A i \in 1..Len(uiRenderQueue) :
          uiRenderQueue[i].command = "UI_CMD_LOAD_SCREEN" =>
              uiRenderQueue[i].highPriority
    /\ systemStatus.uiMissedUpdates = 0

C40_Witness ==
    /\ uiRenderQueue # <<>>
    /\ Head(uiRenderQueue).command = "UI_CMD_LOAD_SCREEN"
    /\ Head(uiRenderQueue).state = ui.lastDisplayedState
    /\ ~Head(uiRenderQueue).forceRefresh
    /\ systemStatus.lastUIState = ui.lastDisplayedState
    /\ systemStatus.uiMissedUpdates = 0

====
